---------------------------- MODULE Spec2Model ----------------------------
(***************************************************************************)
(* A model of zwiebelproxy: the request rewriter and response transformer  *)
(* (internal/tor/tor.go), the access-control gate (package server,         *)
(* ipAuthMiddleware) and the DNS cache behind it (internal/dns/dns.go).    *)
(*                                                                         *)
(* Go strings and byte slices are sequences of one-character strings, so   *)
(* that splitting, trimming, replacing and parsing are computed and not    *)
(* assumed.                                                                *)
(***************************************************************************)
EXTENDS Integers, Sequences, FiniteSets, TLC

VARIABLES
    domain,      \* Tor.domain, the configured public domain
    parts,       \* the pieces the inbound request was put together from
    pr,          \* httputil.ProxyRequest: [In, Out]
    rwDone,      \* Rewrite has returned
    words,       \* Tor.blacklistedwords: the configured words
    upstream,    \* the response as the transport returned it: [Header, Body]
    plain,       \* the plaintext the onion service sent (before its encoding)
    resp,        \* http.Response after ModifyResponse: [Header, Body]
    mrErr,       \* the error ModifyResponse returned, "" for nil
    mrWord,      \* the blacklisted word the error names
    mrRead,      \* ModifyResponse read the body stream
    mrDone,      \* ModifyResponse has returned
    policy,      \* server.allowedIPs, allowedIPRanges, allowedHosts
    addrParts,   \* the pieces the request's RemoteAddr was put together from
    remoteAddr,  \* http.Request.RemoteAddr of the request at the gate
    aclPc,       \* where ipAuthMiddleware is: "idle", "hosts" or "done"
    hostIdx,     \* the allowedHosts entry the host loop is at
    status,      \* the status of the gate's HTTP error, 0 when it made none
    nextCalled,  \* the gate called next(c)
    lookups,     \* the IPLookup calls of this request, in order
    cache,       \* DnsClient.cache: hostname -> [addrs, expiration]
    now,         \* the clock
    resolved,    \* history: hostname -> its last answer from the resolver
    prevGate,    \* history: what the gate decided for the request before
    inReq,       \* the inbound request the server is serving
    hPc,         \* where the serving is: "idle", "upstream", "copying", "done"
    hStatus,     \* the status written to the client, 0 when none was
    hPage,       \* the page rendered to the client: "", "info" or "error"
    hMessage,    \* the message the rendered page carries
    hFailure,    \* what failed: "", "transport", "modify" or "copy"
    sent,        \* the requests ReverseProxy sent upstream, in order
    written,     \* the bytes of the upstream body copied to the client
    hPanic,      \* the panic raised while serving: "", "diagnostic", "render", "abort"
    config,      \* the options of the server: [debug, secretKeyHeaderValue,
                 \* cloudflare, revProxy]
    calls,       \* the IPLookup calls that run side by side, each with its
                 \* position, hostname, resolver answer and return value
    setLog,      \* history: the cache.Set calls, in order
    timeout,     \* the configured timeout, in ticks of the clock
    dPc,         \* where a request under deadlines is: "idle", "lookup",
                 \* "forward", "copying" or "ended"
    dCtx,        \* the context the operation in flight runs under
    timer,       \* the ticks since that context was made
    gone,        \* the client has disconnected: the request's context is done
    hostsLeft,   \* the allowedHosts entries the gate has yet to look up
    dStatus      \* the status the request ended with, 0 for an aborted reply

rwVars == <<parts, pr, rwDone>>

mrVars == <<words, upstream, plain, resp, mrErr, mrWord, mrRead, mrDone>>

aclVars == <<policy, addrParts, remoteAddr, aclPc, hostIdx, status, nextCalled,
             lookups, cache, now, resolved, prevGate>>

hVars == <<inReq, hPc, hStatus, hPage, hMessage, hFailure, sent, written,
           hPanic, config>>

lkVars == <<calls, setLog>>

dlVars == <<timeout, dPc, dCtx, timer, gone, hostsLeft, dStatus>>

vars == <<domain, rwVars, mrVars, aclVars, hVars, lkVars, dlVars>>

(***************************************************************************)
(* String literals of the source.                                          *)
(***************************************************************************)
sEmpty == <<>>
sDot == <<".">>
sColon == <<":">>
sOnion == <<".", "o", "n", "i", "o", "n">>
s80 == <<"8", "0">>
s443 == <<"4", "4", "3">>
sHttp == <<"h", "t", "t", "p">>
sHttps == <<"h", "t", "t", "p", "s">>

Digits == {"0", "1", "2", "3", "4", "5", "6", "7", "8", "9"}

(***************************************************************************)
(* Go's strings package, on sequences of characters.                       *)
(***************************************************************************)
HasPrefix(s, p) ==
    /\ Len(s) >= Len(p)
    /\ SubSeq(s, 1, Len(p)) = p

HasSuffix(s, p) ==
    /\ Len(s) >= Len(p)
    /\ SubSeq(s, Len(s) - Len(p) + 1, Len(s)) = p

TrimSuffix(s, p) ==
    IF HasSuffix(s, p) THEN SubSeq(s, 1, Len(s) - Len(p)) ELSE s

\* strings.IndexByte: the first position of c in s, 0 when there is none
IndexByte(s, c) ==
    IF \E i \in 1..Len(s) : s[i] = c
    THEN CHOOSE i \in 1..Len(s) : s[i] = c /\ \A j \in 1..(i - 1) : s[j] # c
    ELSE 0

\* strings.LastIndexByte: the last position of c in s, 0 when there is none
LastIndexByte(s, c) ==
    IF \E i \in 1..Len(s) : s[i] = c
    THEN CHOOSE i \in 1..Len(s) : s[i] = c /\ \A j \in (i + 1)..Len(s) : s[j] # c
    ELSE 0

\* the occurrence of pattern p in s that starts at position i
MatchAt(s, p, i) ==
    /\ i >= 1
    /\ i + Len(p) - 1 <= Len(s)
    /\ SubSeq(s, i, i + Len(p) - 1) = p

\* strings.Contains
Contains(s, p) == \E i \in 1..(Len(s) + 1) : MatchAt(s, p, i)

\* strings.ReplaceAll / bytes.ReplaceAll for a non-empty pattern: the
\* non-overlapping occurrences of old, found left to right, become new
RECURSIVE ReplaceFrom(_, _, _, _)
ReplaceFrom(s, old, new, i) ==
    IF i > Len(s) THEN <<>>
    ELSE IF MatchAt(s, old, i)
         THEN new \o ReplaceFrom(s, old, new, i + Len(old))
         ELSE <<s[i]>> \o ReplaceFrom(s, old, new, i + 1)

ReplaceAll(s, old, new) == ReplaceFrom(s, old, new, 1)

(***************************************************************************)
(* net.SplitHostPort, net.JoinHostPort and url.URL.Port for the hosts the  *)
(* model feeds them: names and IPv4 literals.  The bracketed IPv6 form     *)
(* "[::1]:80" is not among the inputs, so its branch is left out.          *)
(***************************************************************************)
SplitHostPort(hostport) ==
    LET i == LastIndexByte(hostport, ":")
        host == SubSeq(hostport, 1, i - 1)
    IN  IF i = 0
        THEN [err |-> TRUE, host |-> sEmpty, port |-> sEmpty]   \* missing port in address
        ELSE IF IndexByte(host, ":") # 0
        THEN [err |-> TRUE, host |-> sEmpty, port |-> sEmpty]   \* too many colons in address
        ELSE [err |-> FALSE, host |-> host,
              port |-> SubSeq(hostport, i + 1, Len(hostport))]

JoinHostPort(host, port) ==
    IF IndexByte(host, ":") # 0 \/ IndexByte(host, "%") # 0
    THEN <<"[">> \o host \o <<"]">> \o sColon \o port
    ELSE host \o sColon \o port

\* url.URL.Port: the digits after the last colon of URL.Host, "" otherwise
URLPort(urlHost) ==
    LET i == LastIndexByte(urlHost, ":")
        p == SubSeq(urlHost, i + 1, Len(urlHost))
    IN  IF i # 0 /\ \A k \in 1..Len(p) : p[k] \in Digits THEN p ELSE sEmpty

\* http.Header.Get: the first value of the header, "" when it is absent
HeaderGet(values) == IF values = <<>> THEN sEmpty ELSE values[1]

(***************************************************************************)
(* Tor.Rewrite (internal/tor/tor.go).                                      *)
(***************************************************************************)
\* the domain in its leading-dot form
DomainSuffix(d) == IF HasPrefix(d, sDot) THEN d ELSE sDot \o d

\* host and port of the inbound request: the Host header's, or the whole
\* Host header and the URL's port when the Host header has no port
InboundHostPort(in) ==
    LET sp == SplitHostPort(in.Host)
    IN  IF sp.err
        THEN [host |-> in.Host, port |-> URLPort(in.URL.Host)]
        ELSE [host |-> sp.host, port |-> sp.port]

\* the onion host: the domain suffix and one trailing dot trimmed, ".onion"
\* appended
OnionHostKeepDot(host, dom) == TrimSuffix(host, dom) \o sOnion

OnionHost(host, dom) == TrimSuffix(TrimSuffix(host, dom), sDot) \o sOnion

\* the port is kept unless it is empty or a default port
WithPortOnly80(host, port) ==
    IF port # sEmpty /\ port # s80 THEN JoinHostPort(host, port) ELSE host

WithPort(host, port) ==
    IF port # sEmpty /\ port # s80 /\ port # s443
    THEN JoinHostPort(host, port)
    ELSE host

\* the outbound scheme
OutSchemeURLFirst(urlScheme, xfProto, port, tls) ==
    IF urlScheme # sEmpty THEN urlScheme
    ELSE IF tls THEN sHttps
    ELSE IF xfProto # sEmpty THEN xfProto
    ELSE IF port = s443 THEN sHttps ELSE sHttp

OutScheme(urlScheme, xfProto, port, tls) ==
    LET scheme == IF urlScheme # sEmpty THEN urlScheme
                  ELSE IF xfProto # sEmpty THEN xfProto
                  ELSE IF port = sEmpty THEN sHttp
                  ELSE IF port = s80 THEN sHttp
                  ELSE IF port = s443 THEN sHttps
                  ELSE sHttp
    IN  IF tls THEN sHttps ELSE scheme

RewriteHeaderCopyIn(p) == p.In.Header

\* the headers Rewrite leaves on the outbound request: it touches none
RewriteHeader(p) == p.Out.Header

Rewrite(d, p) ==
    LET dom == DomainSuffix(d)
        hp == InboundHostPort(p.In)
        host == WithPort(OnionHost(hp.host, dom), hp.port)
        scheme == OutScheme(p.In.URL.Scheme,
                            HeaderGet(p.In.Header.XForwardedProto),
                            hp.port, p.In.TLS)
    IN  [p EXCEPT !.Out.Host = host,
                  !.Out.URL.Scheme = scheme,
                  !.Out.URL.Host = host,
                  !.Out.Header = RewriteHeader(p)]

(***************************************************************************)
(* The ProxyRequest httputil.ReverseProxy hands to its Rewrite hook: In is *)
(* the inbound request, Out a clone of it from which ReverseProxy, having  *)
(* a Rewrite hook and no Director, has deleted the client's forwarding     *)
(* headers (Forwarded, X-Forwarded-For, X-Forwarded-Host,                  *)
(* X-Forwarded-Proto).                                                     *)
(***************************************************************************)
NewProxyRequest(in) ==
    [In |-> in,
     Out |-> [in EXCEPT !.Header = [XForwardedFor |-> <<>>,
                                    XForwardedProto |-> <<>>]]]

(***************************************************************************)
(* The parts of the state a specification does not use stay as they are.   *)
(***************************************************************************)
NoResponse == [Header |-> <<>>, Body |-> <<>>]

MrIdle ==
    /\ words = {}
    /\ upstream = NoResponse
    /\ plain = <<>>
    /\ resp = NoResponse
    /\ mrErr = ""
    /\ mrWord = <<>>
    /\ mrRead = FALSE
    /\ mrDone = FALSE

NoPort == <<"-">>       \* marks "no port given"; not a port

NoGate == [remote |-> <<>>, header |-> <<>>, dns |-> <<>>, next |-> FALSE,
           code |-> 0]

AclIdle ==
    /\ prevGate = NoGate
    /\ policy = [allowedIPs |-> <<>>, allowedIPRanges |-> <<>>,
                 allowedHosts |-> <<>>]
    /\ addrParts = [text |-> <<>>, port |-> NoPort, pad |-> <<>>]
    /\ remoteAddr = <<>>
    /\ aclPc = "idle"
    /\ hostIdx = 1
    /\ status = 0
    /\ nextCalled = FALSE
    /\ lookups = <<>>
    /\ cache = <<>>
    /\ now = 0
    /\ resolved = <<>>

NoRequest ==
    [Method |-> "", Path |-> "", Host |-> <<>>,
     URL |-> [Scheme |-> <<>>, Host |-> <<>>],
     Header |-> [XForwardedFor |-> <<>>, XForwardedProto |-> <<>>,
                 SecretKey |-> <<>>],
     TLS |-> FALSE, Body |-> <<>>]

NoConfig ==
    [debug |-> FALSE, secretKeyHeaderValue |-> <<>>, cloudflare |-> FALSE,
     revProxy |-> FALSE]

NoMessage == [text |-> "", word |-> <<>>]

HRequestIdle ==
    /\ inReq = NoRequest
    /\ hPc = "idle"
    /\ hStatus = 0
    /\ hPage = ""
    /\ hMessage = NoMessage
    /\ hFailure = ""
    /\ sent = <<>>
    /\ written = <<>>
    /\ hPanic = ""

HIdle == HRequestIdle /\ config = NoConfig

NoContext == [fromRequest |-> FALSE, deadline |-> 0]

LkIdle == calls = <<>> /\ setLog = <<>>

DlIdle ==
    /\ timeout = 0
    /\ dPc = "idle"
    /\ dCtx = NoContext
    /\ timer = 0
    /\ gone = FALSE
    /\ hostsLeft = 0
    /\ dStatus = 0

RwIdle ==
    /\ LkIdle
    /\ DlIdle
    /\ parts = [label |-> <<>>, hostPort |-> <<>>, urlPort |-> <<>>]
    /\ pr = NewProxyRequest([Host |-> <<>>,
                             URL |-> [Scheme |-> <<>>, Host |-> <<>>],
                             Header |-> [XForwardedFor |-> <<>>,
                                         XForwardedProto |-> <<>>],
                             TLS |-> FALSE])
    /\ rwDone = FALSE

(***************************************************************************)
(* Inbound requests for Rewrite.  The Host header is label + suffix, with  *)
(* ":" + port when a port is given; URL.Host is empty, as on a request the *)
(* server read, or carries the URL's port.                                 *)
(***************************************************************************)
sDomainNoDot == <<"o", "n", "i", "o", "n", ".", "z", "w", "i", "e", "b", "e", "l">>
sDomainDot == <<".", "o", "n", "i", "o", "n", ".", "z", "w", "i", "e", "b", "e", "l">>
sAsdf == <<"a", "s", "d", "f">>
s8008 == <<"8", "0", "0", "8">>
sFtp == <<"f", "t", "p">>
sClientIP == <<"1", ".", "2", ".", "3", ".", "4">>

Domains == {sDomainNoDot, sDomainDot}
Labels == {sAsdf, <<"a", ".", "b">>, <<"a", ".">>, <<"a", ".", ".">>, sEmpty,
           <<"x">> \o sDomainDot}
HostPorts == {NoPort, sEmpty, s80, s443, s8008}
URLPorts == {NoPort, s80, s443, s8008}
Schemes == {sEmpty, sHttp, sHttps, sFtp}
Protos == {<<>>, <<sHttp>>, <<sHttps>>, <<sFtp>>}
ForwardedFors == {<<>>, <<sClientIP>>}

InboundHost(d, label, port) ==
    label \o DomainSuffix(d) \o (IF port = NoPort THEN sEmpty ELSE sColon \o port)

InboundURLHost(d, label, port) ==
    IF port = NoPort THEN sEmpty ELSE label \o DomainSuffix(d) \o sColon \o port

InitRewrite ==
    /\ domain \in Domains
    /\ parts \in [label : Labels, hostPort : HostPorts, urlPort : URLPorts]
    /\ \E scheme \in Schemes, proto \in Protos, tls \in BOOLEAN,
          xff \in ForwardedFors :
          pr = NewProxyRequest(
                 [Host |-> InboundHost(domain, parts.label, parts.hostPort),
                  URL |-> [Scheme |-> scheme,
                           Host |-> InboundURLHost(domain, parts.label,
                                                   parts.urlPort)],
                  Header |-> [XForwardedFor |-> xff, XForwardedProto |-> proto],
                  TLS |-> tls])
    /\ rwDone = FALSE
    /\ LkIdle
    /\ DlIdle
    /\ MrIdle
    /\ AclIdle
    /\ HIdle

\* ReverseProxy calls the Rewrite hook once per request
DoRewrite ==
    /\ ~rwDone
    /\ pr' = Rewrite(domain, pr)
    /\ rwDone' = TRUE
    /\ UNCHANGED <<domain, parts, mrVars, aclVars, hVars, lkVars, dlVars>>

NextRewrite == DoRewrite

SpecRewrite == InitRewrite /\ [][NextRewrite]_vars

(***************************************************************************)
(* Claims about Rewrite.                                                   *)
(***************************************************************************)
\* the port the claims speak of: the Host header's, else the URL's
ClaimPort ==
    IF parts.hostPort # NoPort THEN parts.hostPort
    ELSE IF parts.urlPort # NoPort THEN parts.urlPort ELSE sEmpty

\* the label with one trailing dot removed
ClaimLabel ==
    IF parts.label # sEmpty /\ parts.label[Len(parts.label)] = "."
    THEN SubSeq(parts.label, 1, Len(parts.label) - 1)
    ELSE parts.label

\* the outbound host up to its port
OutHostName == SubSeq(pr.Out.Host, 1, Len(ClaimLabel) + Len(sOnion))

\* what follows the host name in the outbound host
OutHostRest ==
    SubSeq(pr.Out.Host, Len(ClaimLabel) + Len(sOnion) + 1, Len(pr.Out.Host))

\* C4: for an inbound host label + suffix, the outbound Host and the outbound
\* URL host are both the label, one trailing dot removed, followed by
\* ".onion" (and after it nothing but a port), whether the domain was
\* configured with or without its leading dot.
C4_RewriteHost ==
    rwDone =>
        /\ OutHostName = ClaimLabel \o sOnion
        /\ OutHostRest = sEmpty \/ HasPrefix(OutHostRest, sColon)
        /\ pr.Out.URL.Host = pr.Out.Host

C4_Witness ==
    /\ rwDone
    /\ domain = sDomainNoDot
    /\ parts.label = <<"a", ".">>
    /\ pr.In.Host = <<"a", ".">> \o sDomainDot
    /\ pr.Out.Host = <<"a">> \o sOnion

\* C5: the outbound host is "<label>.onion:p" when the port p is not "", "80"
\* or "443", and carries no port when it is.
C5_RewritePort ==
    rwDone =>
        IF ClaimPort \in {sEmpty, s80, s443}
        THEN pr.Out.Host = ClaimLabel \o sOnion
        ELSE pr.Out.Host = ClaimLabel \o sOnion \o sColon \o ClaimPort

C5_Witness ==
    /\ rwDone
    /\ parts.hostPort = NoPort
    /\ parts.urlPort = s8008
    /\ pr.Out.Host = sAsdf \o sOnion \o sColon \o s8008

\* C6: the outbound scheme is https on a TLS connection; else the inbound URL
\* scheme if there is one; else the X-Forwarded-Proto value if there is one;
\* else https for port 443 and http for any other port or none.
C6_RewriteScheme ==
    rwDone =>
        pr.Out.URL.Scheme =
            CASE pr.In.TLS -> sHttps
              [] ~pr.In.TLS /\ pr.In.URL.Scheme # sEmpty -> pr.In.URL.Scheme
              [] ~pr.In.TLS /\ pr.In.URL.Scheme = sEmpty
                   /\ pr.In.Header.XForwardedProto # <<>>
                   /\ pr.In.Header.XForwardedProto[1] # sEmpty
                   -> pr.In.Header.XForwardedProto[1]
              [] OTHER -> IF ClaimPort = s443 THEN sHttps ELSE sHttp

C6_Witness ==
    /\ rwDone
    /\ pr.In.TLS
    /\ pr.In.URL.Scheme = sHttp
    /\ pr.In.Header.XForwardedProto = <<sFtp>>
    /\ pr.Out.URL.Scheme = sHttps

hContentDisposition == <<"C", "o", "n", "t", "e", "n", "t", "-", "D", "i", "s", "p", "o", "s", "i", "t", "i", "o", "n">>
hContentType == <<"C", "o", "n", "t", "e", "n", "t", "-", "T", "y", "p", "e">>
hContentEncoding == <<"C", "o", "n", "t", "e", "n", "t", "-", "E", "n", "c", "o", "d", "i", "n", "g">>
hContentLength == <<"C", "o", "n", "t", "e", "n", "t", "-", "L", "e", "n", "g", "t", "h">>
hSTS == <<"S", "t", "r", "i", "c", "t", "-", "T", "r", "a", "n", "s", "p", "o", "r", "t", "-", "S", "e", "c", "u", "r", "i", "t", "y">>
hPKP == <<"P", "u", "b", "l", "i", "c", "-", "K", "e", "y", "-", "P", "i", "n", "s">>
hPKPRO == <<"P", "u", "b", "l", "i", "c", "-", "K", "e", "y", "-", "P", "i", "n", "s", "-", "R", "e", "p", "o", "r", "t", "-", "O", "n", "l", "y">>
sTextHtml == <<"t", "e", "x", "t", "/", "h", "t", "m", "l">>
sAttachment == <<"a", "t", "t", "a", "c", "h", "m", "e", "n", "t">>
sGzip == <<"g", "z", "i", "p">>
sDeflate == <<"d", "e", "f", "l", "a", "t", "e">>
sBr == <<"b", "r">>
sSemicolon == <<";">>
sSlash == <<"/">>
sQuote == <<"\"">>
sLess == <<"<">>

headersToRemove == {hSTS, hPKP, hPKPRO}

contentTypesForReplace ==
    {<<"t", "e", "x", "t", "/", "p", "l", "a", "i", "n">>,
     <<"t", "e", "x", "t", "/", "h", "t", "m", "l">>,
     <<"t", "e", "x", "t", "/", "c", "s", "s">>,
     <<"t", "e", "x", "t", "/", "j", "a", "v", "a", "s", "c", "r", "i", "p", "t">>,
     <<"t", "e", "x", "t", "/", "x", "m", "l">>,
     <<"a", "p", "p", "l", "i", "c", "a", "t", "i", "o", "n", "/", "x", "-", "j", "a", "v", "a", "s", "c", "r", "i", "p", "t">>,
     <<"a", "p", "p", "l", "i", "c", "a", "t", "i", "o", "n", "/", "j", "a", "v", "a", "s", "c", "r", "i", "p", "t">>,
     <<"a", "p", "p", "l", "i", "c", "a", "t", "i", "o", "n", "/", "j", "s", "o", "n">>,
     <<"a", "p", "p", "l", "i", "c", "a", "t", "i", "o", "n", "/", "l", "d", "+", "j", "s", "o", "n">>,
     <<"a", "p", "p", "l", "i", "c", "a", "t", "i", "o", "n", "/", "x", "m", "l">>,
     <<"a", "p", "p", "l", "i", "c", "a", "t", "i", "o", "n", "/", "r", "s", "s", "+", "x", "m", "l">>,
     <<"a", "p", "p", "l", "i", "c", "a", "t", "i", "o", "n", "/", "a", "t", "o", "m", "+", "x", "m", "l">>,
     <<"a", "p", "p", "l", "i", "c", "a", "t", "i", "o", "n", "/", "r", "d", "f", "+", "x", "m", "l">>}

UpperCase == <<"A", "B", "C", "D", "E", "F", "G", "H", "I", "J", "K", "L", "M", "N", "O", "P", "Q", "R", "S", "T", "U", "V", "W", "X", "Y", "Z">>
LowerCase == <<"a", "b", "c", "d", "e", "f", "g", "h", "i", "j", "k", "l", "m", "n", "o", "p", "q", "r", "s", "t", "u", "v", "w", "x", "y", "z">>

\* the lower-case form of a character, and of a string
LowerChar(c) ==
    IF \E i \in 1..Len(UpperCase) : UpperCase[i] = c
    THEN LowerCase[CHOOSE i \in 1..Len(UpperCase) : UpperCase[i] = c]
    ELSE c

ToLower(s) == [i \in 1..Len(s) |-> LowerChar(s[i])]

\* strings.EqualFold on ASCII
EqualFold(a, b) == ToLower(a) = ToLower(b)

\* helper.SliceContains: the comparison is strings.EqualFold
SliceContainsExact(slice, value) == value \in slice

SliceContains(slice, value) == \E item \in slice : EqualFold(item, value)

\* strings.Split(s, ";")[0]: s up to its first semicolon
BeforeSemicolon(s) ==
    LET i == IndexByte(s, ";")
    IN  IF i = 0 THEN s ELSE SubSeq(s, 1, i - 1)

\* fmt.Sprint of a non-negative int: its decimal digits
DigitChars == <<"0", "1", "2", "3", "4", "5", "6", "7", "8", "9">>

RECURSIVE Itoa(_)
Itoa(n) ==
    IF n < 10 THEN <<DigitChars[n + 1]>>
    ELSE Itoa(n \div 10) \o <<DigitChars[(n % 10) + 1]>>

\* the content codings.  A coded body is a header symbol, the payload in a
\* form that is not the plaintext (here: reversed) and a trailer symbol; the
\* three codings do not read each other's output.
Reverse(s) == [i \in 1..Len(s) |-> s[Len(s) + 1 - i]]

CodecHeader(codec) ==
    CASE codec = "gzip" -> "gzip-header"
      [] codec = "zlib" -> "zlib-header"
      [] codec = "brotli" -> "brotli-header"

CodecTrailer(codec) ==
    CASE codec = "gzip" -> "gzip-crc32"
      [] codec = "zlib" -> "zlib-adler32"
      [] codec = "brotli" -> "brotli-end"

\* helper.GzipInput, helper.ZlibInput, helper.BrotliInput
Compress(codec, data) ==
    <<CodecHeader(codec)>> \o Reverse(data) \o <<CodecTrailer(codec)>>

\* gzip.NewReader and zlib.NewReader read the stream's header and fail on a
\* stream that does not start with it (an empty one included);
\* brotli.NewReader reads nothing and cannot fail
NewReaderFails(codec, wire) ==
    /\ codec \in {"gzip", "zlib"}
    /\ \/ wire = <<>>
       \/ wire[1] # CodecHeader(codec)

\* io.ReadAll on the decoding reader
ReadAllFails(codec, wire) ==
    \/ Len(wire) < 2
    \/ wire[1] # CodecHeader(codec)
    \/ wire[Len(wire)] # CodecTrailer(codec)

Decompress(codec, wire) == Reverse(SubSeq(wire, 2, Len(wire) - 1))

\* the class \w of the blacklist pattern
WordChars ==
    {UpperCase[i] : i \in 1..Len(UpperCase)}
    \cup {LowerCase[i] : i \in 1..Len(LowerCase)}
    \cup Digits \cup {"_"}

\* \b holds in front of position i of s: exactly one of s[i-1], s[i] is a
\* word character
WordBoundary(s, i) ==
    LET before == i > 1 /\ i - 1 <= Len(s) /\ s[i - 1] \in WordChars
        after == i >= 1 /\ i <= Len(s) /\ s[i] \in WordChars
    IN  before # after

\* regexp (?i)\bword\b, the word quoted, matched against the body
BlacklistMatchAnywhere(word, body) ==
    \E i \in 1..(Len(body) + 1) : MatchAt(ToLower(body), ToLower(word), i)

BlacklistMatch(word, body) ==
    \E i \in 1..(Len(body) + 1) :
        /\ MatchAt(ToLower(body), ToLower(word), i)
        /\ WordBoundary(body, i)
        /\ WordBoundary(body, i + Len(word))

\* how many of the entries the loop itself inserted a range over the map
\* comes to visit
MaxRevisits == 2

\* the body of the header loop for the entry k of the map as it is then:
\* the values, ".onion" replaced, are stored under the name with ".onion"
\* replaced; nothing is deleted
HeaderStep(h, k, dom) ==
    LET k2 == ReplaceAll(k, sOnion, dom)
        v == h[k]
        v2 == [i \in 1..Len(v) |-> ReplaceAll(v[i], sOnion, dom)]
    IN  [n \in DOMAIN h \cup {k2} |-> IF n = k2 THEN v2 ELSE h[n]]

\* range over the map: the entries there at the start are visited once
\* each, in any order; an entry inserted on the way is visited or not
RECURSIVE HeaderLoop(_, _, _, _)
HeaderLoop(h, todo, dom, revisits) ==
    IF todo = {} THEN {h}
    ELSE UNION {
            LET k2 == ReplaceAll(k, sOnion, dom)
                h1 == HeaderStep(h, k, dom)
                rest == todo \ {k}
            IN  HeaderLoop(h1, rest, dom, revisits)
                \cup (IF k2 \notin DOMAIN h /\ revisits > 0
                      THEN HeaderLoop(h1, rest \cup {k2}, dom, revisits - 1)
                      ELSE {})
            : k \in todo}

\* the header loop: the maps it can leave.  The entries whose name has no
\* ".onion" and is no other entry's new name are rewritten in place,
\* whenever they are visited; the order matters for the others only.
RewriteHeaders(h, dom) ==
    LET newName(k) == ReplaceAll(k, sOnion, dom)
        inPlace == {k \in DOMAIN h :
                      /\ newName(k) = k
                      /\ \A k1 \in DOMAIN h : newName(k1) = k => k1 = k}
        h0 == [n \in DOMAIN h |->
                  IF n \in inPlace THEN HeaderStep(h, n, dom)[n] ELSE h[n]]
    IN  HeaderLoop(h0, (DOMAIN h) \ inPlace, dom, MaxRevisits)

\* http.Header.Del for each of the headers to remove
RemoveHeadersFirstOnly(h) == [n \in (DOMAIN h) \ {hSTS} |-> h[n]]

RemoveHeaders(h) == [n \in (DOMAIN h) \ headersToRemove |-> h[n]]

\* the two early returns that leave the body alone: a download, no
\* Content-Type, or a Content-Type outside contentTypesForReplace
IsDownload(h) ==
    /\ hContentDisposition \in DOMAIN h
    /\ Len(h[hContentDisposition]) > 0
    /\ HasPrefix(h[hContentDisposition][1], sAttachment)

SkipsListedOnly(h) ==
    /\ hContentType \in DOMAIN h
    /\ Len(h[hContentType]) > 0
    /\ ~SliceContains(contentTypesForReplace,
                      BeforeSemicolon(h[hContentType][1]))

SkipsContentType(h) ==
    \/ hContentType \notin DOMAIN h
    \/ /\ Len(h[hContentType]) > 0
       /\ ~SliceContains(contentTypesForReplace,
                         BeforeSemicolon(h[hContentType][1]))

\* the coding the body is unpacked from and packed into again, "" for none
UsedCodec(h) ==
    LET contentEncoding ==
            IF hContentEncoding \in DOMAIN h
            THEN HeaderGet(h[hContentEncoding]) ELSE sEmpty
    IN  CASE EqualFold(contentEncoding, sGzip) -> "gzip"
          [] EqualFold(contentEncoding, sDeflate) -> "zlib"
          [] EqualFold(contentEncoding, sBr) -> "brotli"
          [] OTHER -> ""

\* the three replacements of the body
ReplaceDomainNoTag(body, dom) ==
    ReplaceAll(ReplaceAll(body, sOnion \o sSlash, dom \o sSlash),
               sOnion \o sQuote, dom \o sQuote)

ReplaceDomainEverywhere(body, dom) == ReplaceAll(body, sOnion, dom)

ReplaceDomain(body, dom) ==
    ReplaceAll(ReplaceAll(ReplaceAll(body, sOnion \o sSlash, dom \o sSlash),
                          sOnion \o sQuote, dom \o sQuote),
               sOnion \o sLess, dom \o sLess)

\* the body after the repacking
RepackGzipOnly(codec, body) == IF codec = "" THEN body ELSE Compress("gzip", body)

Repack(codec, body) == IF codec = "" THEN body ELSE Compress(codec, body)

\* the Content-Length values set at the end: the length of the final body
ContentLengthOfPlain(rewritten, final) == <<Itoa(Len(rewritten))>>

ContentLengthAppended(rewritten, final) == <<Itoa(Len(rewritten)), Itoa(Len(final))>>

ContentLengthValues(rewritten, final) == <<Itoa(Len(final))>>

\* ModifyResponse after the header loop has left the map rewritten: the
\* response it leaves, the error it returns ("" for nil) and whether it
\* read the body
ModifyResponseFrom(d, ws, r, rewritten) ==
    LET dom == DomainSuffix(d)
        header == RemoveHeaders(rewritten)
        left == [Header |-> header, Body |-> r.Body]
        codec == UsedCodec(header)
        body == ReplaceDomain(IF codec = "" THEN r.Body
                              ELSE Decompress(codec, r.Body), dom)
        final == Repack(codec, body)
    IN  IF IsDownload(header) \/ SkipsContentType(header)
        THEN {[resp |-> left, err |-> "", word |-> sEmpty, read |-> FALSE]}
        ELSE IF codec # "" /\ NewReaderFails(codec, r.Body)
        THEN {[resp |-> left, err |-> "could not create reader",
               word |-> sEmpty, read |-> FALSE]}
        ELSE IF codec # "" /\ ReadAllFails(codec, r.Body)
        THEN {[resp |-> left, err |-> "error on reading body",
               word |-> sEmpty, read |-> TRUE]}
        ELSE IF \E w \in ws : BlacklistMatch(w, body)
        THEN {[resp |-> left, err |-> "blacklisted word", word |-> w,
               read |-> TRUE] : w \in {x \in ws : BlacklistMatch(x, body)}}
        ELSE {[resp |-> [Header |-> [n \in DOMAIN header \cup {hContentLength} |->
                                        IF n = hContentLength
                                        THEN ContentLengthValues(body, final)
                                        ELSE header[n]],
                         Body |-> final],
               err |-> "", word |-> sEmpty, read |-> TRUE]}

\* ModifyResponse: its outcomes
ModifyResponse(d, ws, r) ==
    UNION {ModifyResponseFrom(d, ws, r, rewritten) :
              rewritten \in RewriteHeaders(r.Header, DomainSuffix(d))}


(***************************************************************************)
(* Upstream responses for ModifyResponse.  A body is a run of fragments;   *)
(* the transport hands over the body in the coding Content-Encoding names, *)
(* or, from a misbehaving service, uncoded under a Content-Encoding that   *)
(* names a coding.                                                         *)
(***************************************************************************)
MaxFrags == 3

sExampleTld == <<".", "e", "x", "a", "m", "p", "l", "e", ".", "t", "l", "d">>
sBad == <<"b", "a", "d">>
sOnionWord == <<"o", "n", "i", "o", "n">>

\* Tor.blacklistedwords as New builds it: the empty items of the
\* comma-separated configuration are left out
WordLists == {{}, {sBad}, {sBad, sOnionWord}}

Fragments == {sOnion, sSlash, sQuote, sLess, <<"'">>, <<"a">>}

RECURSIVE Flatten(_)
Flatten(fs) == IF fs = <<>> THEN <<>> ELSE Head(fs) \o Flatten(Tail(fs))

Bodies == {Flatten(fs) : fs \in UNION {[1..n -> Fragments] : n \in 0..MaxFrags}}

SampleBodies ==
    {<<>>,
     <<"a">> \o sOnion \o sSlash \o <<"b">>,
     <<"a">> \o sOnion \o <<"'", " ">> \o sBad \o <<".">>,
     <<"B", "a", "d">> \o sOnion \o sQuote,
     <<"a">> \o sBad \o sOnion \o sLess}

ContentTypes ==
    {<<>>,
     <<<<"t", "e", "x", "t", "/", "h", "t", "m", "l">>>>,
     <<<<"t", "e", "x", "t", "/", "h", "t", "m", "l", ";", " ", "c", "h", "a", "r", "s", "e", "t", "=", "u", "t", "f", "-", "8">>>>,
     <<<<"a", "p", "p", "l", "i", "c", "a", "t", "i", "o", "n", "/", "o", "c", "t", "e", "t", "-", "s", "t", "r", "e", "a", "m">>>>,
     <<<<"T", "e", "x", "t", "/", "H", "T", "M", "L">>>>}

ContentDispositions ==
    {<<>>,
     <<<<"a", "t", "t", "a", "c", "h", "m", "e", "n", "t", ";", " ", "f", "i", "l", "e", "n", "a", "m", "e", "=", "\"", "x", "\"">>>>,
     <<<<"i", "n", "l", "i", "n", "e">>>>,
     <<<<"i", "n", "l", "i", "n", "e">>, <<"a", "t", "t", "a", "c", "h", "m", "e", "n", "t">>>>}

ContentEncodings ==
    {<<>>, <<sGzip>>, <<<<"G", "Z", "I", "P">>>>, <<sDeflate>>, <<sBr>>,
     <<<<"i", "d", "e", "n", "t", "i", "t", "y">>>>}

\* the responses the header claims are tried on
HeaderCaseBodies == {<<>>, <<"a">> \o sOnion \o sSlash \o <<"b">>}
HeaderCaseDispositions ==
    {<<>>, <<sAttachment>>}
HeaderCaseEncodings == {<<>>, <<sGzip>>}

\* a header map: the named headers that have values
HeaderMap(pairs) ==
    [n \in {q[1] : q \in {x \in pairs : x[2] # <<>>}} |->
        (CHOOSE q \in pairs : q[1] = n)[2]]

\* the body as the transport hands it over
WireBody(ce, body, coded) ==
    LET codec == UsedCodec(HeaderMap({<<hContentEncoding, ce>>}))
    IN  IF coded /\ codec # "" THEN Compress(codec, body) ELSE body

sMaxAge == <<"m", "a", "x", "-", "a", "g", "e", "=", "1">>
sPin == <<"p", "i", "n">>

\* the transport-security headers a service may send
SecurityHeaders ==
    {{},
     {<<hSTS, <<sMaxAge>>>>},
     {<<hSTS, <<sMaxAge>>>>, <<hPKP, <<sPin>>>>, <<hPKPRO, <<sPin, sPin>>>>}}

\* headers with ".onion" in a name or in values
hOnionName == <<"X">> \o sOnion
hLink == <<"L", "i", "n", "k">>
sOnionValue == <<"a">> \o sOnion
sOnionTwice == sOnion \o sOnion \o sSlash

OnionHeaders ==
    {{<<hLink, <<sOnionValue, sOnionTwice>>>>},
     {<<hOnionName, <<sOnionValue, sOnionTwice>>>>},
     {<<hOnionName, <<sOnionValue>>>>, <<<<"X">> \o sExampleTld, <<sPin>>>>}}

UpstreamResponse(ct, cd, ce, extra, cl, body, coded) ==
    LET wire == WireBody(ce, body, coded)
    IN  [Header |-> HeaderMap({<<hContentType, ct>>,
                               <<hContentDisposition, cd>>,
                               <<hContentEncoding, ce>>,
                               <<hContentLength,
                                 IF cl THEN <<Itoa(Len(wire))>> ELSE <<>>>>}
                              \cup extra),
         Body |-> wire]

InitModify ==
    /\ domain \in {sExampleTld, sDomainNoDot}
    /\ \/ /\ plain \in Bodies
          /\ words = {}
          /\ \E ce \in ContentEncodings, cl \in BOOLEAN :
                upstream = UpstreamResponse(<<sTextHtml>>, <<>>, ce, {}, cl,
                                            plain, TRUE)
       \/ /\ plain \in SampleBodies
          /\ words \in WordLists
          /\ \E ct \in ContentTypes, cd \in ContentDispositions,
                ce \in ContentEncodings, coded \in BOOLEAN,
                extra \in {x \in SecurityHeaders : Cardinality(x) < 2} :
                upstream = UpstreamResponse(ct, cd, ce, extra, TRUE, plain, coded)
       \/ /\ plain \in HeaderCaseBodies
          /\ words = {}
          /\ \E ct \in ContentTypes, cd \in HeaderCaseDispositions,
                ce \in HeaderCaseEncodings,
                extra \in SecurityHeaders \cup OnionHeaders :
                upstream = UpstreamResponse(ct, cd, ce, extra, TRUE, plain, TRUE)
    /\ resp = upstream
    /\ mrErr = ""
    /\ mrWord = <<>>
    /\ mrRead = FALSE
    /\ mrDone = FALSE
    /\ RwIdle
    /\ AclIdle
    /\ HIdle

\* ReverseProxy calls the ModifyResponse hook once per upstream response
DoModifyResponse ==
    /\ ~mrDone
    /\ \E out \in ModifyResponse(domain, words, upstream) :
          /\ resp' = out.resp
          /\ mrErr' = out.err
          /\ mrWord' = out.word
          /\ mrRead' = out.read
    /\ mrDone' = TRUE
    /\ UNCHANGED <<domain, words, upstream, plain, rwVars, lkVars, dlVars, aclVars, hVars>>

NextModify == DoModifyResponse

SpecModify == InitModify /\ [][NextModify]_vars


(***************************************************************************)
(* Claims about ModifyResponse.                                            *)
(***************************************************************************)
\* the value of a header of the upstream response, <<>> when it is absent
Sent(name) ==
    IF name \in DOMAIN upstream.Header THEN upstream.Header[name] ELSE <<>>

\* the three conditions under which the body is to be left alone
ClaimAttachment ==
    /\ Sent(hContentDisposition) # <<>>
    /\ HasPrefix(Sent(hContentDisposition)[1], sAttachment)

ClaimNoContentType == Sent(hContentType) = <<>>

ClaimMimeNotListed ==
    /\ Sent(hContentType) # <<>>
    /\ \A listed \in contentTypesForReplace :
          ToLower(listed) # ToLower(BeforeSemicolon(Sent(hContentType)[1]))

ClaimLeftAlone == ClaimAttachment \/ ClaimNoContentType \/ ClaimMimeNotListed

\* the body-rewrite path was taken and ended without an error
Rewritten == mrDone /\ mrRead /\ mrErr = ""

\* the coding Content-Encoding names, compared without regard to case
ClaimCoded ==
    /\ Sent(hContentEncoding) # <<>>
    /\ ToLower(Sent(hContentEncoding)[1]) \in {sGzip, sDeflate, sBr}

\* the plaintext of the body ModifyResponse left on the response
PlainOut ==
    IF ClaimCoded THEN Reverse(SubSeq(resp.Body, 2, Len(resp.Body) - 1))
    ELSE resp.Body

\* one pass over the body: ".onion" becomes dom exactly where "/", a double
\* quote or "<" follows it, and every other byte is copied
RECURSIVE Anchored(_, _, _)
Anchored(body, dom, i) ==
    IF i > Len(body) THEN <<>>
    ELSE IF /\ MatchAt(body, sOnion, i)
            /\ i + Len(sOnion) <= Len(body)
            /\ body[i + Len(sOnion)] \in {"/", "\"", "<"}
         THEN dom \o Anchored(body, dom, i + Len(sOnion))
         ELSE <<body[i]>> \o Anchored(body, dom, i + 1)

\* C8: on the body-rewrite path every ".onion/", ".onion"" and ".onion<" of
\* the decompressed body has the domain suffix in place of ".onion", and no
\* other byte is changed: ".onion" before any other character, or at the end
\* of the body, stays.
C8_BodyReplace ==
    Rewritten => PlainOut = Anchored(plain, DomainSuffix(domain), 1)

C8_Witness ==
    /\ Rewritten
    /\ domain = sExampleTld
    /\ plain = sOnion \o sLess \o sOnion
    /\ resp.Body = sExampleTld \o sLess \o sOnion

\* C9: a download (first Content-Disposition value starting with
\* "attachment"), a response without Content-Type and a response whose MIME
\* type is not on the list all come back with success, the body and the
\* Content-Length as they were and the body unread; the body is rewritten
\* only when none of the three holds.
C9_BodyLeftAlone ==
    mrDone =>
        /\ ClaimLeftAlone =>
              /\ mrErr = ""
              /\ ~mrRead
              /\ resp.Body = upstream.Body
              /\ hContentLength \in DOMAIN resp.Header
              /\ resp.Header[hContentLength] = Sent(hContentLength)
        /\ (mrRead \/ resp.Body # upstream.Body) => ~ClaimLeftAlone

C9_Witness ==
    /\ mrDone
    /\ ClaimAttachment
    /\ ~ClaimNoContentType
    /\ ~ClaimMimeNotListed
    /\ Contains(upstream.Body, sOnion \o sSlash)
    /\ resp.Body = upstream.Body
    /\ mrErr = ""

\* strconv.Atoi of a string of digits
RECURSIVE Atoi(_)
Atoi(ds) ==
    IF ds = <<>> THEN 0
    ELSE 10 * Atoi(SubSeq(ds, 1, Len(ds) - 1))
         + (CHOOSE n \in 0..9 : DigitChars[n + 1] = ds[Len(ds)])

\* C10: when ModifyResponse has rewritten the body and returns success, the
\* response has exactly one Content-Length value, the byte length of the
\* body now on the response (after replacement and recompression).
C10_ContentLength ==
    Rewritten =>
        /\ hContentLength \in DOMAIN resp.Header
        /\ Len(resp.Header[hContentLength]) = 1
        /\ \A k \in 1..Len(resp.Header[hContentLength][1]) :
              resp.Header[hContentLength][1][k] \in Digits
        /\ Atoi(resp.Header[hContentLength][1]) = Len(resp.Body)

C10_Witness ==
    /\ Rewritten
    /\ ClaimCoded
    /\ plain = sOnion \o sSlash
    /\ domain = sExampleTld
    /\ Sent(hContentLength) = <<<<"9">>>>
    /\ resp.Header[hContentLength] = <<<<"1", "5">>>>
    /\ Len(resp.Body) = 15


\* the body went through the replacements: it was read to its end
ClaimBodyRead == mrDone /\ mrRead /\ mrErr # "error on reading body"

\* the word occurs in the text, compared without regard to case, with no
\* letter, digit or underscore next to it on either side
ClaimWholeWordIn(w, text) ==
    \E i \in 1..Len(text) :
        /\ i + Len(w) - 1 <= Len(text)
        /\ ToLower(SubSeq(text, i, i + Len(w) - 1)) = ToLower(w)
        /\ i > 1 => text[i - 1] \notin WordChars
        /\ i + Len(w) <= Len(text) => text[i + Len(w)] \notin WordChars

ClaimVetoWords ==
    {w \in words : ClaimWholeWordIn(w, Anchored(plain, DomainSuffix(domain), 1))}

\* C11: on the body-rewrite path, under every Content-Encoding,
\* ModifyResponse returns the blacklist error, naming a matching word and
\* leaving the response body as it was, exactly when a configured word
\* occurs as a whole word, in any case, in the decompressed body after the
\* domain replacement; a word inside a longer token and an empty word list
\* veto nothing.
C11_BlacklistVeto ==
    ClaimBodyRead =>
        /\ mrErr = "blacklisted word" <=> ClaimVetoWords # {}
        /\ mrErr = "blacklisted word" =>
              /\ mrWord \in ClaimVetoWords
              /\ resp.Body = upstream.Body
        /\ ClaimVetoWords = {} => mrErr = ""

C11_Witness ==
    /\ ClaimBodyRead
    /\ Sent(hContentEncoding) = <<sGzip>>
    /\ words = {sBad, sOnionWord}
    /\ plain = <<"B", "a", "d">> \o sOnion \o sQuote
    /\ domain = sExampleTld
    /\ mrErr = "blacklisted word"
    /\ mrWord = sBad
    /\ resp.Body = upstream.Body

\* C12 as stated: with words configured, a response whose content matches a
\* word is never relayed, whatever its Content-Type, Content-Disposition or
\* Content-Encoding.
C12_Original ==
    (mrDone /\ \E w \in words : ClaimWholeWordIn(w, plain)) => mrErr # ""


\* the codec a Content-Encoding value names
ClaimCodec(ce) ==
    CASE ToLower(ce) = sGzip -> "gzip"
      [] ToLower(ce) = sDeflate -> "zlib"
      [] ToLower(ce) = sBr -> "brotli"
      [] OTHER -> ""

\* a client decoding the wire bytes with the codec gets the text
ClaimDecodesTo(codec, wire, text) ==
    /\ Len(wire) >= 2
    /\ wire[1] = CodecHeader(codec)
    /\ wire[Len(wire)] = CodecTrailer(codec)
    /\ Reverse(SubSeq(wire, 2, Len(wire) - 1)) = text

\* C13: after a rewrite of a body that was decompressed because
\* Content-Encoding named gzip, deflate or br (in any case), the
\* Content-Encoding header is as it was and the relayed body decodes, under
\* the codec the header names, to exactly the rewritten plaintext; when no
\* decompression ran, the relayed body is the rewritten bytes themselves.
C13_Recompress ==
    Rewritten =>
        LET text == Anchored(plain, DomainSuffix(domain), 1)
        IN  IF ClaimCoded
            THEN /\ hContentEncoding \in DOMAIN resp.Header
                 /\ resp.Header[hContentEncoding] = Sent(hContentEncoding)
                 /\ ClaimDecodesTo(ClaimCodec(resp.Header[hContentEncoding][1]),
                                   resp.Body, text)
            ELSE resp.Body = text

C13_Witness ==
    /\ Rewritten
    /\ Sent(hContentEncoding) = <<sDeflate>>
    /\ domain = sExampleTld
    /\ plain = sOnion \o sSlash \o <<"a">>
    /\ resp.Body = <<"zlib-header">> \o Reverse(sExampleTld \o sSlash \o <<"a">>)
                   \o <<"zlib-adler32">>
    /\ resp.Body # upstream.Body

\* C14: after every ModifyResponse that returns success, the short-circuits
\* for downloads and content types included, the response has none of the
\* headers Strict-Transport-Security, Public-Key-Pins and
\* Public-Key-Pins-Report-Only.
C14_NoSecurityHeaders ==
    (mrDone /\ mrErr = "") =>
        \A n \in {hSTS, hPKP, hPKPRO} : n \notin DOMAIN resp.Header

C14_Witness ==
    /\ mrDone
    /\ mrErr = ""
    /\ ~mrRead
    /\ ClaimAttachment
    /\ {hSTS, hPKP, hPKPRO} \subseteq DOMAIN upstream.Header
    /\ {hSTS, hPKP, hPKPRO} \cap DOMAIN resp.Header = {}
    /\ hContentType \in DOMAIN resp.Header


\* the text with the domain in place of every ".onion", in one pass
RECURSIVE ClaimNoOnion(_, _, _)
ClaimNoOnion(text, dom, i) ==
    IF i > Len(text) THEN <<>>
    ELSE IF MatchAt(text, sOnion, i)
         THEN dom \o ClaimNoOnion(text, dom, i + Len(sOnion))
         ELSE <<text[i]>> \o ClaimNoOnion(text, dom, i + 1)

\* C15 as stated: for a domain suffix without ".onion", no header name and
\* no header value of the response ModifyResponse leaves contains ".onion",
\* and each header of the upstream response is there, under its name with
\* the domain in place of ".onion", with its values in their order.
C15_Original ==
    (mrDone /\ ~Contains(DomainSuffix(domain), sOnion)) =>
        /\ \A n \in DOMAIN resp.Header :
              /\ ~Contains(n, sOnion)
              /\ \A i \in 1..Len(resp.Header[n]) :
                    ~Contains(resp.Header[n][i], sOnion)
        /\ \A n \in (DOMAIN upstream.Header) \ (headersToRemove \cup {hContentLength}) :
              LET n2 == ClaimNoOnion(n, DomainSuffix(domain), 1)
              IN  (\A m \in DOMAIN upstream.Header :
                      ClaimNoOnion(m, DomainSuffix(domain), 1) = n2 => m = n)
                  => /\ n2 \in DOMAIN resp.Header
                     /\ resp.Header[n2] =
                           [i \in 1..Len(upstream.Header[n]) |->
                              ClaimNoOnion(upstream.Header[n][i],
                                           DomainSuffix(domain), 1)]


\* two texts that are equal but for the case of their letters
ClaimSameButCase(a, b) ==
    /\ Len(a) = Len(b)
    /\ \A i \in 1..Len(a) :
          \/ a[i] = b[i]
          \/ \E k \in 1..Len(UpperCase) :
                {a[i], b[i]} = {UpperCase[k], LowerCase[k]}

\* the MIME type of the upstream response: the text before any ";"
ClaimMime ==
    LET ct == Sent(hContentType)[1]
        semi == IndexByte(ct, ";")
    IN  IF semi = 0 THEN ct ELSE SubSeq(ct, 1, semi - 1)

\* C23 as stated: a MIME type that is on the list only up to letter case
\* counts as not on the list, and the body is not rewritten.
C23_Original ==
    (mrDone /\ Sent(hContentType) # <<>>
            /\ ClaimMime \notin contentTypesForReplace) =>
        (~mrRead /\ mrErr = "" /\ resp.Body = upstream.Body)

\* C23: the check of the MIME type (the text before any ";") against the
\* list disregards letter case: a response whose MIME type equals an entry
\* up to letter case, such as Text/HTML, is taken for listed and goes on to
\* the body rewrite, and one that equals no entry up to letter case is
\* left alone.
C23_CaseInsensitive ==
    (mrDone /\ Sent(hContentType) # <<>> /\ ~ClaimAttachment) =>
        IF \E listed \in contentTypesForReplace : ClaimSameButCase(listed, ClaimMime)
        THEN mrRead \/ mrErr = "could not create reader"
        ELSE ~mrRead /\ mrErr = "" /\ resp.Body = upstream.Body

C23_Witness ==
    /\ Rewritten
    /\ Sent(hContentType) = <<<<"T", "e", "x", "t", "/", "H", "T", "M", "L">>>>
    /\ plain = <<"a">> \o sOnion \o sSlash \o <<"b">>
    /\ resp.Body # upstream.Body


(***************************************************************************)
(* DnsClient.IPLookup (internal/dns/dns.go) over go-cache: an entry is     *)
(* found until the clock has passed its expiration.                        *)
(***************************************************************************)
CacheTTL == 1       \* dnsCacheTimeout, in ticks of the clock
MaxTime == 3        \* the clock stops here

\* cache.Get
CacheFoundForever(c, t, host) == host \in DOMAIN c

CacheFound(c, t, host) == host \in DOMAIN c /\ ~(t > c[host].expiration)

\* a Set that adds the addresses to the ones of the entry it finds
CacheSetAppend(c, t, host, addrs) ==
    [h \in DOMAIN c \cup {host} |->
        IF h = host
        THEN [addrs |-> (IF host \in DOMAIN c THEN c[host].addrs ELSE <<>>)
                        \o addrs,
              expiration |-> t + CacheTTL]
        ELSE c[h]]

\* cache.Set with the default expiration
CacheSet(c, t, host, addrs) ==
    [h \in DOMAIN c \cup {host} |->
        IF h = host THEN [addrs |-> addrs, expiration |-> t + CacheTTL]
        ELSE c[h]]

\* IPLookup with the resolver answering `answer`: the addresses or the
\* error returned, the cache afterwards, and whether the resolver was asked
IPLookupNegativeCache(c, t, host, answer) ==
    IF CacheFound(c, t, host)
    THEN [err |-> FALSE, addrs |-> c[host].addrs, cache |-> c, asked |-> FALSE]
    ELSE [err |-> answer.err, addrs |-> answer.addrs,
          cache |-> CacheSet(c, t, host, answer.addrs), asked |-> TRUE]

IPLookup(c, t, host, answer) ==
    IF CacheFound(c, t, host)
    THEN [err |-> FALSE, addrs |-> c[host].addrs, cache |-> c, asked |-> FALSE]
    ELSE IF answer.err
    THEN [err |-> TRUE, addrs |-> <<>>, cache |-> c, asked |-> TRUE]
    ELSE [err |-> FALSE, addrs |-> answer.addrs,
          cache |-> CacheSet(c, t, host, answer.addrs), asked |-> TRUE]

(***************************************************************************)
(* server.ipAuthMiddleware (package server) and what it calls.             *)
(***************************************************************************)
StatusBadRequest == 400
StatusForbidden == 403
StatusInternalServerError == 500
StatusBadGateway == 502

\* strings.TrimSpace
Spaces == {" ", "\t", "\n", "\r"}

RECURSIVE TrimSpace(_)
TrimSpace(x) ==
    IF x = <<>> THEN x
    ELSE IF Head(x) \in Spaces THEN TrimSpace(Tail(x))
    ELSE IF x[Len(x)] \in Spaces THEN TrimSpace(SubSeq(x, 1, Len(x) - 1))
    ELSE x

\* the fields of a dotted string
RECURSIVE DotFields(_)
DotFields(x) ==
    LET i == IndexByte(x, ".")
    IN  IF i = 0 THEN <<x>>
        ELSE <<SubSeq(x, 1, i - 1)>> \o DotFields(SubSeq(x, i + 1, Len(x)))

RECURSIVE DecimalValue(_)
DecimalValue(ds) ==
    IF ds = <<>> THEN 0
    ELSE 10 * DecimalValue(SubSeq(ds, 1, Len(ds) - 1))
         + (CHOOSE n \in 0..9 : DigitChars[n + 1] = ds[Len(ds)])

\* netip.ParseAddr on a string without ":" (IPv6 literals are not among the
\* remote addresses of the model): four decimal fields of one to three
\* digits, none with a leading zero, none above 255
ParseAddr(x) ==
    LET fs == DotFields(x)
        fieldOk(f) == /\ Len(f) \in 1..3
                      /\ \A k \in 1..Len(f) : f[k] \in Digits
                      /\ (Len(f) > 1 => f[1] # "0")
                      /\ DecimalValue(f) <= 255
    IN  IF Len(fs) = 4 /\ \A k \in 1..4 : fieldOk(fs[k])
        THEN [err |-> FALSE, octets |-> [k \in 1..4 |-> DecimalValue(fs[k])]]
        ELSE [err |-> TRUE, octets |-> <<0, 0, 0, 0>>]

\* netip.Prefix.Contains for IPv4: the first `bits` bits agree
AddrValue(o) == ((o[1] * 256 + o[2]) * 256 + o[3]) * 256 + o[4]

PrefixContainsWhole(prefix, octets) == prefix.octets = octets

PrefixContains(prefix, octets) ==
    AddrValue(prefix.octets) \div (2 ^ (32 - prefix.bits))
        = AddrValue(octets) \div (2 ^ (32 - prefix.bits))

\* the remote IP: RemoteAddr without its port, or as it is when it has none
RemoteIPStrict(addr) == TrimSpace(SplitHostPort(addr).host)

RemoteIP(addr) ==
    LET sp == SplitHostPort(addr)
    IN  TrimSpace(IF sp.err THEN addr ELSE sp.host)

\* the status for a remote IP that does not parse
ParseFailureStatus == StatusBadGateway

\* the gate without the range check
GateWithoutRanges(pol, addr) ==
    LET remoteIP == RemoteIP(addr)
        ipParsed == ParseAddr(remoteIP)
    IN  IF Len(pol.allowedHosts) = 0 /\ Len(pol.allowedIPs) = 0
           /\ Len(pol.allowedIPRanges) = 0
        THEN [decided |-> TRUE, next |-> TRUE, code |-> 0]
        ELSE IF remoteIP = sEmpty
        THEN [decided |-> TRUE, next |-> FALSE, code |-> StatusBadRequest]
        ELSE IF ipParsed.err
        THEN [decided |-> TRUE, next |-> FALSE, code |-> ParseFailureStatus]
        ELSE IF \E k \in 1..Len(pol.allowedIPs) : pol.allowedIPs[k] = remoteIP
        THEN [decided |-> TRUE, next |-> TRUE, code |-> 0]
        ELSE [decided |-> FALSE, next |-> FALSE, code |-> 0]

\* the gate up to the host loop: it calls next, answers with an error, or
\* goes on to the hosts
GateBeforeHosts(pol, addr) ==
    LET remoteIP == RemoteIP(addr)
        ipParsed == ParseAddr(remoteIP)
    IN  IF Len(pol.allowedHosts) = 0 /\ Len(pol.allowedIPs) = 0
           /\ Len(pol.allowedIPRanges) = 0
        THEN [decided |-> TRUE, next |-> TRUE, code |-> 0]
        ELSE IF remoteIP = sEmpty
        THEN [decided |-> TRUE, next |-> FALSE, code |-> StatusBadRequest]
        ELSE IF ipParsed.err
        THEN [decided |-> TRUE, next |-> FALSE, code |-> ParseFailureStatus]
        ELSE IF \E k \in 1..Len(pol.allowedIPs) : pol.allowedIPs[k] = remoteIP
        THEN [decided |-> TRUE, next |-> TRUE, code |-> 0]
        ELSE IF \E k \in 1..Len(pol.allowedIPRanges) :
                   PrefixContains(pol.allowedIPRanges[k], ipParsed.octets)
        THEN [decided |-> TRUE, next |-> TRUE, code |-> 0]
        ELSE [decided |-> FALSE, next |-> FALSE, code |-> 0]

\* one round of the host loop, after IPLookup returned `res`
HostStepSkipError(res, remoteIP) ==
    IF ~res.err /\ \E k \in 1..Len(res.addrs) : res.addrs[k] = remoteIP
    THEN [decided |-> TRUE, next |-> TRUE, code |-> 0]
    ELSE [decided |-> FALSE, next |-> FALSE, code |-> 0]

HostStep(res, remoteIP) ==
    IF res.err
    THEN [decided |-> TRUE, next |-> FALSE, code |-> StatusInternalServerError]
    ELSE IF \E k \in 1..Len(res.addrs) : res.addrs[k] = remoteIP
    THEN [decided |-> TRUE, next |-> TRUE, code |-> 0]
    ELSE [decided |-> FALSE, next |-> FALSE, code |-> 0]

(***************************************************************************)
(* Policies, remote addresses and resolver answers.                        *)
(***************************************************************************)
ip1234 == <<"1", ".", "2", ".", "3", ".", "4">>
ip5678 == <<"5", ".", "6", ".", "7", ".", "8">>
ip10123 == <<"1", "0", ".", "1", ".", "2", ".", "3">>
ip11000 == <<"1", "1", ".", "0", ".", "0", ".", "0">>
ip256 == <<"2", "5", "6", ".", "1", ".", "1", ".", "1">>
sBogus == <<"b", "o", "g", "u", "s">>
s5555 == <<"5", "5", "5", "5">>

prefix10 == [octets |-> <<10, 0, 0, 0>>, bits |-> 8]
prefix5 == [octets |-> <<5, 6, 7, 0>>, bits |-> 24]

Policies ==
    {[allowedIPs |-> <<>>, allowedIPRanges |-> <<>>, allowedHosts |-> <<>>],
     [allowedIPs |-> <<ip1234>>, allowedIPRanges |-> <<>>, allowedHosts |-> <<>>],
     [allowedIPs |-> <<>>, allowedIPRanges |-> <<prefix10>>, allowedHosts |-> <<>>],
     [allowedIPs |-> <<>>, allowedIPRanges |-> <<>>,
      allowedHosts |-> <<"dyn1.example", "dyn2.example">>],
     [allowedIPs |-> <<ip1234>>, allowedIPRanges |-> <<prefix5, prefix10>>,
      allowedHosts |-> <<"dyn1.example", "dyn2.example">>]}

RemoteTexts == {ip1234, ip5678, ip10123, ip11000, ip256, sBogus, sEmpty}
RemotePorts == {NoPort, s5555}
RemotePads == {sEmpty, <<" ">>}

Answers ==
    {[err |-> TRUE, addrs |-> <<>>],
     [err |-> FALSE, addrs |-> <<ip1234>>],
     [err |-> FALSE, addrs |-> <<ip5678, ip11000>>]}

InitACL ==
    /\ policy \in Policies
    /\ addrParts = [text |-> <<>>, port |-> NoPort, pad |-> <<>>]
    /\ remoteAddr = <<>>
    /\ aclPc = "idle"
    /\ hostIdx = 1
    /\ status = 0
    /\ nextCalled = FALSE
    /\ lookups = <<>>
    /\ cache = <<>>
    /\ now = 0
    /\ resolved = <<>>
    /\ prevGate = NoGate
    /\ domain = sDomainDot
    /\ RwIdle
    /\ MrIdle
    /\ HIdle

\* a request reaches the gate: the checks up to the host loop
AuthStart ==
    /\ aclPc = "idle"
    /\ \E text \in RemoteTexts, port \in RemotePorts, pad \in RemotePads :
          /\ addrParts' = [text |-> text, port |-> port, pad |-> pad]
          /\ remoteAddr' = pad \o text \o
                           (IF port = NoPort THEN sEmpty ELSE sColon \o port)
    /\ LET g == GateBeforeHosts(policy, remoteAddr')
       IN  /\ aclPc' = IF g.decided THEN "done" ELSE "hosts"
           /\ status' = g.code
           /\ nextCalled' = g.next
    /\ hostIdx' = 1
    /\ lookups' = <<>>
    /\ UNCHANGED <<policy, cache, now, resolved, prevGate, domain, rwVars, lkVars, dlVars,
                   mrVars, hVars>>

\* one round of the host loop: IPLookup, then the comparison
AuthHost ==
    /\ aclPc = "hosts"
    /\ hostIdx <= Len(policy.allowedHosts)
    /\ \E answer \in Answers :
          LET d == policy.allowedHosts[hostIdx]
              res == IPLookup(cache, now, d, answer)
              g == HostStep(res, RemoteIP(remoteAddr))
          IN  /\ cache' = res.cache
              /\ lookups' = Append(lookups, [host |-> d, asked |-> res.asked,
                                             err |-> res.err,
                                             addrs |-> res.addrs])
              /\ resolved' =
                    IF res.asked /\ ~answer.err
                    THEN [h \in DOMAIN resolved \cup {d} |->
                            IF h = d
                            THEN [at |-> now, addrs |-> answer.addrs,
                                  n |-> IF d \in DOMAIN resolved
                                        THEN resolved[d].n + 1 ELSE 1]
                            ELSE resolved[h]]
                    ELSE resolved
              /\ aclPc' = IF g.decided THEN "done" ELSE "hosts"
              /\ status' = g.code
              /\ nextCalled' = g.next
    /\ hostIdx' = hostIdx + 1
    /\ UNCHANGED <<policy, addrParts, remoteAddr, now, prevGate, domain,
                   rwVars, lkVars, dlVars, mrVars, hVars>>

\* no host matched
AuthDenied ==
    /\ aclPc = "hosts"
    /\ hostIdx > Len(policy.allowedHosts)
    /\ aclPc' = "done"
    /\ status' = StatusForbidden
    /\ nextCalled' = FALSE
    /\ UNCHANGED <<policy, addrParts, remoteAddr, hostIdx, lookups, cache, now,
                   resolved, prevGate, domain, rwVars, lkVars, dlVars, mrVars, hVars>>

\* the request is answered; the gate is ready for the next one
AuthReturn ==
    /\ aclPc = "done"
    /\ aclPc' = "idle"
    /\ addrParts' = [text |-> <<>>, port |-> NoPort, pad |-> <<>>]
    /\ remoteAddr' = <<>>
    /\ hostIdx' = 1
    /\ status' = 0
    /\ nextCalled' = FALSE
    /\ lookups' = <<>>
    /\ UNCHANGED <<policy, cache, now, resolved, prevGate, domain, rwVars, lkVars, dlVars,
                   mrVars, hVars>>

\* time passes
Tick ==
    /\ now < MaxTime
    /\ now' = now + 1
    /\ UNCHANGED <<policy, addrParts, remoteAddr, aclPc, hostIdx, status,
                   nextCalled, lookups, cache, resolved, prevGate, domain,
                   rwVars, lkVars, dlVars, mrVars, hVars>>

NextACL == AuthStart \/ AuthHost \/ AuthDenied \/ AuthReturn \/ Tick

SpecACL == InitACL /\ [][NextACL]_vars


(***************************************************************************)
(* Claims about the access-control gate.                                   *)
(***************************************************************************)
\* the remote IP of the request, as text
ClaimIP == addrParts.text

\* the remote addresses that are IP addresses
ClaimParsable == ClaimIP \in {ip1234, ip5678, ip10123, ip11000}

ClaimPolicyEmpty ==
    /\ policy.allowedIPs = <<>>
    /\ policy.allowedIPRanges = <<>>
    /\ policy.allowedHosts = <<>>

ClaimListed == \E k \in 1..Len(policy.allowedIPs) : policy.allowedIPs[k] = ClaimIP

\* which of the addresses lie in which prefix: 10.1.2.3 in 10.0.0.0/8,
\* 5.6.7.8 in 5.6.7.0/24
ClaimInRange ==
    \E k \in 1..Len(policy.allowedIPRanges) :
        <<policy.allowedIPRanges[k], ClaimIP>>
            \in {<<prefix10, ip10123>>, <<prefix5, ip5678>>}

\* a resolution of this request failed
ClaimResolutionFailed == \E j \in 1..Len(lookups) : lookups[j].err

\* an allowedHosts entry resolved to the remote IP, all resolutions succeeding
ClaimHostMatch ==
    /\ ClaimParsable
    /\ ~ClaimResolutionFailed
    /\ \E j \in 1..Len(lookups) :
          \E k \in 1..Len(lookups[j].addrs) : lookups[j].addrs[k] = ClaimIP

ClaimAllowed ==
    \/ ClaimPolicyEmpty
    \/ ClaimParsable /\ ClaimListed
    \/ ClaimParsable /\ ClaimInRange
    \/ ClaimHostMatch

\* C1 as stated: the gate calls next exactly when the policy is empty or the
\* remote IP is listed, in a range, or among a host's addresses; every other
\* request with a parsable remote IP gets Forbidden.
C1_Original ==
    aclPc = "done" =>
        /\ nextCalled <=> ClaimAllowed
        /\ (~ClaimAllowed /\ ClaimParsable) =>
              (status = StatusForbidden /\ ~nextCalled)

\* C1: the gate calls next exactly when the policy is empty or the remote IP
\* is listed, in a range, or among a host's addresses with every resolution
\* made succeeding; every other request with a parsable remote IP and no
\* failed resolution gets Forbidden and next is not called.
C1_Gate ==
    aclPc = "done" =>
        /\ nextCalled <=> ClaimAllowed
        /\ nextCalled => status = 0
        /\ (~ClaimAllowed /\ ClaimParsable /\ ~ClaimResolutionFailed) =>
              (status = StatusForbidden /\ ~nextCalled)

C1_Witness ==
    /\ aclPc = "done"
    /\ policy.allowedIPRanges = <<prefix10>>
    /\ ClaimIP = ip11000
    /\ status = StatusForbidden
    /\ ~nextCalled

\* C2 as stated: under a non-empty policy a remote address that is no IP
\* address gets Bad Request.
C2_Original ==
    (aclPc = "done" /\ ~ClaimPolicyEmpty /\ ~ClaimParsable) =>
        (status = StatusBadRequest /\ ~nextCalled)

\* C3: when a resolution of an allowedHosts entry fails, the request ends
\* there with Internal Server Error and next is not called, whatever a later
\* entry would resolve to.
C3_ResolutionFailure ==
    ClaimResolutionFailed =>
        /\ aclPc = "done"
        /\ lookups[Len(lookups)].err
        /\ status = StatusInternalServerError
        /\ ~nextCalled

C3_Witness ==
    /\ aclPc = "done"
    /\ status = StatusInternalServerError
    /\ Len(lookups) = 1
    /\ lookups[1].host = "dyn1.example"
    /\ lookups[1].err
    /\ Len(policy.allowedHosts) = 2
    /\ CacheFound(cache, now, "dyn2.example")
    /\ cache["dyn2.example"].addrs = <<ClaimIP>>


\* C27: the gate tries the exact IPs, then the ranges, then the hosts, and
\* the first match ends it: a remote IP that is listed or lies in a range is
\* allowed without any lookup, whatever the hosts would resolve to; the
\* hosts are looked up in the order of the configuration, and none after
\* the first one that matches or fails.
C27_Order ==
    /\ (aclPc # "idle" /\ ClaimParsable /\ (ClaimListed \/ ClaimInRange)) =>
          (lookups = <<>> /\ aclPc = "done" /\ nextCalled)
    /\ Len(lookups) <= Len(policy.allowedHosts)
    /\ \A j \in 1..Len(lookups) : lookups[j].host = policy.allowedHosts[j]
    /\ \A j \in 1..(Len(lookups) - 1) :
          /\ ~lookups[j].err
          /\ \A k \in 1..Len(lookups[j].addrs) : lookups[j].addrs[k] # ClaimIP

C27_Witness ==
    /\ aclPc = "done"
    /\ policy.allowedIPs = <<ip1234>>
    /\ policy.allowedIPRanges = <<prefix5, prefix10>>
    /\ Len(policy.allowedHosts) = 2
    /\ ClaimIP = ip10123
    /\ nextCalled
    /\ lookups = <<>>


(***************************************************************************)
(* Claims about the DNS cache.                                             *)
(***************************************************************************)
\* an IPLookup call has just returned: its record
ClaimLookupReturned == Len(lookups') = Len(lookups) + 1
ClaimLastLookup == lookups'[Len(lookups')]

\* the hostname was resolved with success and the TTL has not elapsed since
ClaimWithinTTL(h) ==
    /\ h \in DOMAIN resolved
    /\ now <= resolved[h].at + CacheTTL

\* C18: IPLookup asks the resolver exactly when no successful resolution of
\* the hostname lies within the TTL: within the TTL it returns the addresses
\* of that resolution without asking, and after the TTL it asks again and
\* returns what the resolver then answers.
C18_CacheWindow ==
    [][ClaimLookupReturned =>
          LET e == ClaimLastLookup
          IN  /\ e.asked <=> ~ClaimWithinTTL(e.host)
              /\ ~e.asked => (~e.err /\ e.addrs = resolved[e.host].addrs)
              /\ (e.asked /\ ~e.err) =>
                    /\ resolved'[e.host].at = now
                    /\ e.addrs = resolved'[e.host].addrs]_vars

C18_Witness ==
    /\ Len(lookups) = 2
    /\ ~lookups[1].asked
    /\ lookups[2].asked
    /\ ~lookups[2].err
    /\ resolved[lookups[2].host].n = 2
    /\ resolved[lookups[2].host].at = now
    /\ now > CacheTTL

\* C19: when the resolver fails, IPLookup returns the error and the cache
\* is as it was: nothing is stored for the hostname, so that it is not found
\* afterwards, and the entries of other hostnames stay.
C19_NoNegativeCache ==
    [][(ClaimLookupReturned /\ ClaimLastLookup.err) =>
          /\ ClaimLastLookup.asked
          /\ cache' = cache
          /\ ~CacheFound(cache', now', ClaimLastLookup.host)
          /\ \A h \in DOMAIN cache : h \in DOMAIN cache' /\ cache'[h] = cache[h]]_vars

C19_Witness ==
    /\ Len(lookups) = 2
    /\ ~lookups[1].err
    /\ lookups[2].err
    /\ lookups[2].host = "dyn2.example"
    /\ CacheFound(cache, now, "dyn1.example")
    /\ "dyn2.example" \notin DOMAIN cache


(***************************************************************************)
(* The route of the proxy (server.NewServer) and IndexHandler.Handler with *)
(* the httputil.ReverseProxy it runs: Rewrite, the round trip, the         *)
(* ModifyResponse hook, the ErrorHandler and the copy of the response.     *)
(***************************************************************************)
StatusOK == 200
StatusMethodNotAllowed == 405

\* e.GET("/*", ...): the methods the route is registered for
RoutedMethods == {"GET"}

\* strings.TrimLeft(s, ".")
RECURSIVE TrimLeftDots(_)
TrimLeftDots(s) ==
    IF s # <<>> /\ Head(s) = "." THEN TrimLeftDots(Tail(s)) ELSE s

\* the checks of the handler on the host: "info" for the info page, "bad"
\* for the Bad Request, "proxy" for the reverse proxy
HandlerRouteBareSuffix(d, in) ==
    LET sp == SplitHostPort(in.Host)
        host == IF sp.err THEN in.Host ELSE sp.host
    IN  IF host = TrimLeftDots(d) THEN "info"
        ELSE IF ~HasSuffix(host, TrimLeftDots(d)) THEN "bad"
        ELSE "proxy"

HandlerRoute(d, in) ==
    LET sp == SplitHostPort(in.Host)
        host == IF sp.err THEN in.Host ELSE sp.host
    IN  IF host = TrimLeftDots(d) THEN "info"
        ELSE IF ~HasSuffix(host, d) THEN "bad"
        ELSE "proxy"

\* the ErrorHandler of the proxy: the status it writes and the page it
\* renders, with the error's text
ErrorHandlerNoStatus(text, word) ==
    [status |-> StatusOK, page |-> "error",
     message |-> [text |-> text, word |-> word]]

ErrorHandler(text, word) ==
    [status |-> StatusBadGateway, page |-> "error",
     message |-> [text |-> text, word |-> word]]

\* middlewareRecover with customHTTPErrorHandler: a panic of the handler is
\* turned into an error and given to the error handler, which leaves a
\* response that is committed as it is and else renders the page under 500;
\* `committed` is the status already written, 0 when none was
Recover(committed) ==
    IF committed # 0
    THEN [status |-> committed, page |-> "", message |-> NoMessage]
    ELSE [status |-> StatusInternalServerError, page |-> "error",
          message |-> [text |-> "An internal error occured.", word |-> <<>>]]

\* PanicHandler.Handler: whether it panics
PanicHandlerEqualOnly(cfg, in) ==
    \/ cfg.debug
    \/ HeaderGet(in.Header.SecretKey) = cfg.secretKeyHeaderValue

PanicHandler(cfg, in) ==
    \/ cfg.debug
    \/ /\ HeaderGet(in.Header.SecretKey) # sEmpty
       /\ HeaderGet(in.Header.SecretKey) = cfg.secretKeyHeaderValue

\* the inbound requests
Methods == {"GET", "POST", "PUT", "DELETE"}
sOther == <<"o", "t", "h", "e", "r", ".", "e", "x", "a", "m", "p", "l", "e">>
RequestBodies == {<<>>, <<"x", "=", "1">>}

RequestHosts(d) ==
    {TrimLeftDots(d),
     TrimLeftDots(d) \o sColon \o s8008,
     sAsdf \o d,
     sAsdf \o d \o sColon \o s8008,
     sAsdf \o d \o sColon \o s443,
     <<"x">> \o TrimLeftDots(d),
     d,
     sDot \o d \o sColon \o s8008,
     sOther,
     sOther \o sColon \o s80}

InboundRequests(d) ==
    {[Method |-> m, Path |-> "/", Host |-> h,
      URL |-> [Scheme |-> <<>>, Host |-> <<>>],
      Header |-> [XForwardedFor |-> <<>>, XForwardedProto |-> <<>>,
                  SecretKey |-> <<>>],
      TLS |-> FALSE, Body |-> b] :
        m \in Methods, h \in RequestHosts(d), b \in RequestBodies}

\* the requests for the diagnostic endpoint, with the secret header absent,
\* empty, right and wrong
sSecret == <<"s", "3", "c", "r", "e", "t">>
sWrong == <<"w", "r", "o", "n", "g">>
SecretKeyHeaders == {<<>>, <<sEmpty>>, <<sSecret>>, <<sWrong>>}

DiagnosticRequests(d) ==
    {[Method |-> "GET", Path |-> "/test/panic", Host |-> h,
      URL |-> [Scheme |-> <<>>, Host |-> <<>>],
      Header |-> [XForwardedFor |-> <<>>, XForwardedProto |-> <<>>,
                  SecretKey |-> v],
      TLS |-> FALSE, Body |-> <<>>] :
        h \in {TrimLeftDots(d), sAsdf \o d}, v \in SecretKeyHeaders}

Configs ==
    [debug : BOOLEAN, secretKeyHeaderValue : {sEmpty, sSecret},
     cloudflare : {FALSE}, revProxy : {FALSE}]

\* what the round trip can end with: an error of the transport, or a
\* response of the onion service
TransportErrors == {"socks connect failed", "context deadline exceeded"}

ServedBodies ==
    {<<"a">> \o sOnion \o sSlash \o <<"b">>,
     <<"a">> \o sOnion \o <<"'", " ">> \o sBad \o <<".">>}

ServedResponses ==
    {[plain |-> body,
      response |-> UpstreamResponse(<<sTextHtml>>, cd, ce, {}, TRUE, body, coded)] :
        body \in ServedBodies, cd \in HeaderCaseDispositions,
        ce \in HeaderCaseEncodings, coded \in BOOLEAN}

InitHandler ==
    /\ domain \in {sDomainDot, sExampleTld}
    /\ words \in WordLists
    /\ upstream = NoResponse
    /\ plain = <<>>
    /\ resp = NoResponse
    /\ mrErr = ""
    /\ mrWord = <<>>
    /\ mrRead = FALSE
    /\ mrDone = FALSE
    /\ HRequestIdle
    /\ config \in Configs
    /\ RwIdle
    /\ AclIdle

\* the router, then the handler up to the request ReverseProxy sends
\* upstream
ServeRequest(in) ==
    IF in.Method \notin RoutedMethods
    THEN /\ hPc' = "done"
         /\ hStatus' = StatusMethodNotAllowed
         /\ hPage' = "error"
         /\ hMessage' = [text |-> "Method Not Allowed", word |-> <<>>]
         /\ sent' = <<>>
    ELSE CASE HandlerRoute(domain, in) = "info" ->
                /\ hPc' = "done"
                /\ hStatus' = StatusOK
                /\ hPage' = "info"
                /\ hMessage' = NoMessage
                /\ sent' = <<>>
           [] HandlerRoute(domain, in) = "bad" ->
                /\ hPc' = "done"
                /\ hStatus' = StatusBadRequest
                /\ hPage' = "error"
                /\ hMessage' = [text |-> "invalid domain called", word |-> <<>>]
                /\ sent' = <<>>
           [] HandlerRoute(domain, in) = "proxy" ->
                /\ hPc' = "upstream"
                /\ hStatus' = 0
                /\ hPage' = ""
                /\ hMessage' = NoMessage
                /\ sent' = <<Rewrite(domain, NewProxyRequest(in)).Out>>

\* a request comes in
Serve ==
    /\ hPc = "idle"
    /\ \E in \in InboundRequests(domain) :
          /\ inReq' = in
          /\ ServeRequest(in)
    /\ UNCHANGED <<hFailure, written, hPanic, config, domain, rwVars, lkVars, dlVars, mrVars,
                   aclVars>>

\* a request for /test/panic comes in: PanicHandler.Handler under
\* middlewareRecover
ServeDiagnostic ==
    /\ hPc = "idle"
    /\ \E in \in DiagnosticRequests(domain) :
          /\ inReq' = in
          /\ IF PanicHandler(config, in)
             THEN LET r == Recover(0)
                  IN  /\ hStatus' = r.status
                      /\ hPage' = r.page
                      /\ hMessage' = r.message
                      /\ hPanic' = "diagnostic"
             ELSE /\ hStatus' = StatusOK
                  /\ hPage' = ""
                  /\ hMessage' = NoMessage
                  /\ hPanic' = ""
    /\ hPc' = "done"
    /\ UNCHANGED <<hFailure, sent, written, config, domain, rwVars, lkVars, dlVars, mrVars,
                   aclVars>>

\* the round trip fails: ReverseProxy calls the ErrorHandler, which writes
\* the status and renders the page, and panics when the rendering fails
TransportFails ==
    /\ hPc = "upstream"
    /\ \E text \in TransportErrors, renders \in BOOLEAN :
          LET e == ErrorHandler(text, <<>>)
              o == IF renders THEN e ELSE Recover(e.status)
          IN  /\ hStatus' = o.status
              /\ hPage' = o.page
              /\ hMessage' = o.message
              /\ hPanic' = IF renders THEN "" ELSE "render"
    /\ hFailure' = "transport"
    /\ hPc' = "done"
    /\ UNCHANGED <<inReq, sent, written, config, domain, rwVars, lkVars, dlVars, mrVars,
                   aclVars>>

\* the round trip returns a response: ReverseProxy calls ModifyResponse
\* and, on its error, the ErrorHandler; else it writes the header
TransportRespondsWith(responses) ==
    /\ hPc = "upstream"
    /\ \E served \in responses, code \in {StatusOK, StatusForbidden},
          renders \in BOOLEAN :
          \E out \in ModifyResponse(domain, words, served.response) :
              /\ upstream' = served.response
              /\ plain' = served.plain
              /\ resp' = out.resp
              /\ mrErr' = out.err
              /\ mrWord' = out.word
              /\ mrRead' = out.read
              /\ mrDone' = TRUE
              /\ IF out.err # ""
                 THEN LET e == ErrorHandler(out.err, out.word)
                          o == IF renders THEN e ELSE Recover(e.status)
                      IN  /\ hStatus' = o.status
                          /\ hPage' = o.page
                          /\ hMessage' = o.message
                          /\ hPanic' = IF renders THEN "" ELSE "render"
                          /\ hFailure' = "modify"
                          /\ hPc' = "done"
                 ELSE /\ hStatus' = code
                      /\ hPage' = ""
                      /\ hMessage' = NoMessage
                      /\ hPanic' = ""
                      /\ hFailure' = ""
                      /\ hPc' = "copying"
    /\ UNCHANGED <<inReq, sent, written, config, domain, words, rwVars, lkVars, dlVars, aclVars>>

TransportResponds == TransportRespondsWith(ServedResponses)

\* the body ModifyResponse left is copied to the client
CopyBody ==
    /\ hPc = "copying"
    /\ written' = resp.Body
    /\ hPc' = "done"
    /\ UNCHANGED <<inReq, hStatus, hPage, hMessage, hFailure, sent, hPanic,
                   config, domain, rwVars, lkVars, dlVars, mrVars, aclVars>>

\* the copy breaks off: the header is out, and ReverseProxy panics with
\* http.ErrAbortHandler, which the recover middleware raises again and the
\* HTTP server answers by aborting the connection
CopyFails ==
    /\ hPc = "copying"
    /\ resp.Body # <<>>
    /\ \E k \in {0, Len(resp.Body) - 1} :
          written' = SubSeq(resp.Body, 1, k)
    /\ hFailure' = "copy"
    /\ hPanic' = "abort"
    /\ hPc' = "done"
    /\ UNCHANGED <<inReq, hStatus, hPage, hMessage, sent, config, domain,
                   rwVars, lkVars, dlVars, mrVars, aclVars>>

\* the handler returns; the server waits for the next request
Finish ==
    /\ hPc = "done"
    /\ inReq' = NoRequest
    /\ hPc' = "idle"
    /\ hStatus' = 0
    /\ hPage' = ""
    /\ hMessage' = NoMessage
    /\ hFailure' = ""
    /\ sent' = <<>>
    /\ written' = <<>>
    /\ upstream' = NoResponse
    /\ plain' = <<>>
    /\ resp' = NoResponse
    /\ mrErr' = ""
    /\ mrWord' = <<>>
    /\ mrRead' = FALSE
    /\ mrDone' = FALSE
    /\ hPanic' = ""
    /\ UNCHANGED <<config, domain, words, rwVars, lkVars, dlVars, aclVars>>

NextHandler ==
    Serve \/ ServeDiagnostic \/ TransportFails \/ TransportResponds
    \/ CopyBody \/ CopyFails \/ Finish

SpecHandler == InitHandler /\ [][NextHandler]_vars


(***************************************************************************)
(* The server as a whole (server.NewServer): a request passes              *)
(* xHeaderMiddleware, then ipAuthMiddleware, then the handler under        *)
(* middlewareRecover; an error the gate returns is rendered by             *)
(* customHTTPErrorHandler.                                                 *)
(***************************************************************************)
\* the host after x-forwarded-port was applied to it
ForwardedPortApplied(hostport, port) ==
    LET sp == SplitHostPort(hostport)
        given == port # sEmpty /\ port # s80 /\ port # s443
    IN  IF sp.err
        THEN IF given THEN JoinHostPort(hostport, port) ELSE hostport
        ELSE IF given THEN JoinHostPort(sp.host, port) ELSE sp.host

\* xHeaderMiddleware: the request it hands to the next handler
XHeaderMiddleware(r) ==
    LET ported ==
            IF r.Header.XForwardedPort = <<>> THEN r
            ELSE [r EXCEPT
                    !.URL.Host = ForwardedPortApplied(@, r.Header.XForwardedPort[1]),
                    !.Host = ForwardedPortApplied(@, r.Header.XForwardedPort[1]),
                    !.Header.XForwardedPort = <<>>]
    IN  IF r.Header.XForwardedProto = <<>> THEN ported
        ELSE [ported EXCEPT !.URL.Scheme = r.Header.XForwardedProto[1],
                            !.Header.XForwardedProto = <<>>]

\* the address the gate takes for the client's, were it the one of echo's
\* IPExtractor as NewServer sets it
GateAddrRealIP(r, cfg) ==
    LET sp == SplitHostPort(r.RemoteAddr)
        direct == IF sp.err THEN r.RemoteAddr ELSE sp.host
    IN  IF cfg.cloudflare
        THEN IF HeaderGet(r.Header.CFConnectingIP) # sEmpty
             THEN HeaderGet(r.Header.CFConnectingIP) ELSE direct
        ELSE IF cfg.revProxy
        THEN IF HeaderGet(r.Header.XForwardedFor) # sEmpty
             THEN HeaderGet(r.Header.XForwardedFor)
             ELSE IF HeaderGet(r.Header.XRealIP) # sEmpty
             THEN HeaderGet(r.Header.XRealIP) ELSE direct
        ELSE direct

\* the address the gate takes for the client's
GateAddr(r, cfg) == r.RemoteAddr

\* the message of the error the gate returns
GateMessage(code) ==
    CASE code = StatusBadRequest -> "could not determine remote ip"
      [] code = StatusBadGateway -> "could not parse remote ip"
      [] code = StatusInternalServerError -> "internal error"
      [] code = StatusForbidden -> "access denied"

\* the requests: remote addresses and the headers a client may set
sServerPort == s5555
ServerRemotes == {ip1234 \o sColon \o sServerPort, ip5678 \o sColon \o sServerPort}

NoHeaders ==
    [XForwardedFor |-> <<>>, XForwardedProto |-> <<>>, XForwardedPort |-> <<>>,
     XRealIP |-> <<>>, CFConnectingIP |-> <<>>, SecretKey |-> <<>>]

ServerHeaders ==
    {NoHeaders,
     [NoHeaders EXCEPT !.XForwardedFor = <<ip1234>>],
     [NoHeaders EXCEPT !.XRealIP = <<ip1234>>],
     [NoHeaders EXCEPT !.CFConnectingIP = <<ip1234>>],
     [NoHeaders EXCEPT !.XForwardedProto = <<sFtp>>],
     [NoHeaders EXCEPT !.XForwardedProto = <<sHttps>>,
                       !.XForwardedPort = <<s8008>>]}

ServerRequests(d) ==
    {[Method |-> "GET", Path |-> "/", Host |-> h,
      URL |-> [Scheme |-> <<>>, Host |-> <<>>], Header |-> hd,
      TLS |-> FALSE, Body |-> <<>>, RemoteAddr |-> ra] :
        h \in {sAsdf \o d}, hd \in ServerHeaders, ra \in ServerRemotes}

ServerPolicies ==
    {[allowedIPs |-> <<ip1234>>, allowedIPRanges |-> <<>>, allowedHosts |-> <<>>],
     [allowedIPs |-> <<>>, allowedIPRanges |-> <<>>,
      allowedHosts |-> <<"dyn1.example">>]}

ServerConfigs ==
    {[NoConfig EXCEPT !.cloudflare = cf, !.revProxy = rp] :
        cf \in BOOLEAN, rp \in BOOLEAN}

ServerResponses ==
    {[plain |-> body,
      response |-> UpstreamResponse(<<sTextHtml>>, <<>>, <<>>, {}, TRUE, body,
                                    FALSE)] : body \in ServedBodies}

InitServer ==
    /\ domain = sDomainDot
    /\ words = {sBad}
    /\ upstream = NoResponse
    /\ plain = <<>>
    /\ resp = NoResponse
    /\ mrErr = ""
    /\ mrWord = <<>>
    /\ mrRead = FALSE
    /\ mrDone = FALSE
    /\ HRequestIdle
    /\ config \in ServerConfigs
    /\ policy \in ServerPolicies
    /\ addrParts = [text |-> <<>>, port |-> NoPort, pad |-> <<>>]
    /\ remoteAddr = <<>>
    /\ aclPc = "idle"
    /\ hostIdx = 1
    /\ status = 0
    /\ nextCalled = FALSE
    /\ lookups = <<>>
    /\ cache = <<>>
    /\ now = 0
    /\ resolved = <<>>
    /\ prevGate = NoGate
    /\ RwIdle

\* a request comes in: xHeaderMiddleware, then the gate up to the host loop
Accept ==
    /\ hPc = "idle"
    /\ aclPc = "idle"
    /\ \E in \in ServerRequests(domain) :
          LET r == XHeaderMiddleware(in)
              g == GateBeforeHosts(policy, GateAddr(r, config))
          IN  /\ inReq' = r
              /\ remoteAddr' = GateAddr(r, config)
              /\ addrParts' = [text |-> RemoteIP(in.RemoteAddr),
                               port |-> sServerPort, pad |-> <<>>]
              /\ aclPc' = IF g.decided THEN "done" ELSE "hosts"
              /\ status' = g.code
              /\ nextCalled' = g.next
    /\ hPc' = "gate"
    /\ hostIdx' = 1
    /\ lookups' = <<>>
    /\ UNCHANGED <<hStatus, hPage, hMessage, hFailure, sent, written, hPanic,
                   config, policy, cache, now, resolved, prevGate, domain,
                   rwVars, lkVars, dlVars, mrVars>>

\* the gate has called next: the handler
HandleUngated ==
    /\ hPc = "gate"
    /\ ServeRequest(inReq)
    /\ UNCHANGED <<inReq, hFailure, written, hPanic, config, domain, rwVars, lkVars, dlVars,
                   mrVars, aclVars>>

Handle ==
    /\ hPc = "gate"
    /\ aclPc = "done"
    /\ nextCalled
    /\ ServeRequest(inReq)
    /\ UNCHANGED <<inReq, hFailure, written, hPanic, config, domain, rwVars, lkVars, dlVars,
                   mrVars, aclVars>>

\* the gate has returned an error: customHTTPErrorHandler renders it
Reject ==
    /\ hPc = "gate"
    /\ aclPc = "done"
    /\ ~nextCalled
    /\ hStatus' = status
    /\ hPage' = "error"
    /\ hMessage' = [text |-> GateMessage(status), word |-> <<>>]
    /\ hPc' = "done"
    /\ UNCHANGED <<inReq, hFailure, sent, written, hPanic, config, domain,
                   rwVars, lkVars, dlVars, mrVars, aclVars>>

ServerResponds == TransportRespondsWith(ServerResponses)

\* the request is answered; the server waits for the next one
Reply ==
    /\ hPc = "done"
    /\ prevGate' = [remote |-> inReq.RemoteAddr,
                    header |-> inReq.Header,
                    dns |-> [j \in 1..Len(lookups) |->
                               [host |-> lookups[j].host, err |-> lookups[j].err,
                                addrs |-> lookups[j].addrs]],
                    next |-> nextCalled,
                    code |-> status]
    /\ inReq' = NoRequest
    /\ hPc' = "idle"
    /\ hStatus' = 0
    /\ hPage' = ""
    /\ hMessage' = NoMessage
    /\ hFailure' = ""
    /\ sent' = <<>>
    /\ written' = <<>>
    /\ hPanic' = ""
    /\ upstream' = NoResponse
    /\ plain' = <<>>
    /\ resp' = NoResponse
    /\ mrErr' = ""
    /\ mrWord' = <<>>
    /\ mrRead' = FALSE
    /\ mrDone' = FALSE
    /\ aclPc' = "idle"
    /\ addrParts' = [text |-> <<>>, port |-> NoPort, pad |-> <<>>]
    /\ remoteAddr' = <<>>
    /\ hostIdx' = 1
    /\ status' = 0
    /\ nextCalled' = FALSE
    /\ lookups' = <<>>
    /\ UNCHANGED <<config, policy, cache, now, resolved, domain, words, rwVars, lkVars, dlVars>>

NextServer ==
    Accept \/ AuthHost \/ AuthDenied \/ Handle \/ Reject \/ TransportFails
    \/ ServerResponds \/ CopyBody \/ CopyFails \/ Reply

SpecServer == InitServer /\ [][NextServer]_vars


(***************************************************************************)
(* Claims about the handler.                                               *)
(***************************************************************************)
\* the host of the inbound request without its port
ClaimHost ==
    LET colon == IndexByte(inReq.Host, ":")
    IN  IF colon = 0 THEN inReq.Host ELSE SubSeq(inReq.Host, 1, colon - 1)

\* the domain without its leading dot
ClaimBareDomain == SubSeq(domain, 2, Len(domain))

ClaimEndsWithDomain ==
    /\ Len(ClaimHost) >= Len(domain)
    /\ SubSeq(ClaimHost, Len(ClaimHost) - Len(domain) + 1, Len(ClaimHost)) = domain

\* the handler has been called with the request
ClaimHandled ==
    hPc # "idle" /\ inReq.Method = "GET" /\ inReq.Path # "/test/panic"

\* C16: the handler routes a request by its host without the port: for the
\* bare domain it renders the info page with status 200 and sends nothing
\* upstream; else, for a host that does not end with the leading-dot domain,
\* it answers Bad Request (400) and sends nothing upstream; a request goes
\* upstream only in the remaining case.
C16_HostRouting ==
    /\ ClaimHandled =>
          IF ClaimHost = ClaimBareDomain
          THEN /\ hPc = "done"
               /\ hStatus = StatusOK
               /\ hPage = "info"
               /\ sent = <<>>
          ELSE IF ~ClaimEndsWithDomain
          THEN /\ hPc = "done"
               /\ hStatus = StatusBadRequest
               /\ hPage = "error"
               /\ sent = <<>>
          ELSE Len(sent) = 1
    /\ sent # <<>> => (ClaimHost # ClaimBareDomain /\ ClaimEndsWithDomain)

C16_Witness ==
    /\ ClaimHandled
    /\ inReq.Host = <<"x">> \o ClaimBareDomain
    /\ hStatus = StatusBadRequest
    /\ sent = <<>>

\* C17 as stated: a request with any method whose Host is a label followed
\* by the domain is sent to the onion service with its method and its body
\* as they came.
C17_Original ==
    (hPc # "idle" /\ inReq.Path # "/test/panic" /\ ClaimEndsWithDomain
       /\ ClaimHost # ClaimBareDomain) =>
        /\ Len(sent) = 1
        /\ sent[1].Method = inReq.Method
        /\ sent[1].Body = inReq.Body

ClaimOnionLabel ==
    LET h == sent[1].Host
        colon == IndexByte(h, ":")
        host == IF colon = 0 THEN h ELSE SubSeq(h, 1, colon - 1)
    IN  SubSeq(host, 1, Len(host) - Len(sOnion))

\* C30 as stated: the host of every request sent upstream is a non-empty
\* label followed by ".onion" and, at most, a port.
C30_Original ==
    sent # <<>> =>
        /\ ClaimOnionLabel # <<>>
        /\ "." \notin {ClaimOnionLabel[i] : i \in 1..Len(ClaimOnionLabel)}
        /\ sent[1].Host \in {ClaimOnionLabel \o sOnion,
                              ClaimOnionLabel \o sOnion \o sColon \o s8008}

\* the secret the request for the diagnostic endpoint presents
ClaimPresented ==
    IF inReq.Header.SecretKey = <<>> THEN <<>> ELSE inReq.Header.SecretKey[1]

\* C22 as stated: the diagnostic endpoint fails only for a request that
\* presents the configured secret; a request that presents none or another
\* value gets 200 and no failure, in debug mode too.
C22_Original ==
    (hPc = "done" /\ inReq.Path = "/test/panic"
       /\ (inReq.Header.SecretKey = <<>>
           \/ ClaimPresented # config.secretKeyHeaderValue)) =>
        (hPanic = "" /\ hStatus = StatusOK)

\* C22: outside debug mode the diagnostic endpoint fails exactly for a
\* request whose secret header has a non-empty value equal to the
\* configured secret, and a request with the header missing, empty or
\* different gets 200 and no failure, also under an empty configured
\* secret; in debug mode every request to the endpoint fails.  The failure
\* is answered with 500.
C22_Diagnostic ==
    (hPc = "done" /\ inReq.Path = "/test/panic") =>
        LET fails == \/ config.debug
                     \/ /\ ClaimPresented # <<>>
                        /\ ClaimPresented = config.secretKeyHeaderValue
        IN  /\ hPanic = "diagnostic" <=> fails
            /\ fails => hStatus = StatusInternalServerError
            /\ ~fails => (hPanic = "" /\ hStatus = StatusOK /\ hPage = "")

C22_Witness ==
    /\ hPc = "done"
    /\ inReq.Path = "/test/panic"
    /\ ~config.debug
    /\ config.secretKeyHeaderValue = <<>>
    /\ inReq.Header.SecretKey = <<>>
    /\ hStatus = StatusOK
    /\ hPanic = ""

\* C21 as stated: a request during which a panic was raised is answered
\* with Internal Server Error (500) and the error page.
C21_Original ==
    (hPc = "done" /\ hPanic # "") =>
        (hStatus = StatusInternalServerError /\ hPage = "error")

\* C24: within a request the gate comes before Rewrite, Rewrite before the
\* round trip, the round trip before ModifyResponse and ModifyResponse
\* before the reply: a request goes upstream only after the gate has called
\* next, and only with the host and the scheme Rewrite gave it;
\* ModifyResponse runs only on the answer to a request sent; and a byte of
\* the upstream body is written to the client only after ModifyResponse
\* has returned nil.
C24_Order ==
    /\ hPc \in {"upstream", "copying"} => (aclPc = "done" /\ nextCalled)
    /\ sent # <<>> =>
          /\ aclPc = "done" /\ nextCalled
          /\ Len(sent) = 1
          /\ LET colon == IndexByte(sent[1].Host, ":")
                 host == IF colon = 0 THEN sent[1].Host
                         ELSE SubSeq(sent[1].Host, 1, colon - 1)
             IN  HasSuffix(host, sOnion)
          /\ sent[1].Host # inReq.Host
          /\ sent[1].URL.Host = sent[1].Host
          /\ sent[1].URL.Scheme # <<>>
    /\ (aclPc # "done" \/ ~nextCalled) =>
          (sent = <<>> /\ ~mrDone /\ written = <<>>)
    /\ mrDone => sent # <<>>
    /\ hPc = "copying" => (mrDone /\ mrErr = "")
    /\ written # <<>> =>
          /\ mrDone /\ mrErr = ""
          /\ SubSeq(resp.Body, 1, Len(written)) = written

C24_Witness ==
    /\ hPc = "done"
    /\ policy.allowedIPs = <<ip1234>>
    /\ inReq.RemoteAddr = ip1234 \o sColon \o sServerPort
    /\ inReq.Host = sAsdf \o domain \o sColon \o s8008
    /\ sent[1].Host = sAsdf \o sOnion \o sColon \o s8008
    /\ sent[1].URL.Scheme = sHttps
    /\ mrDone /\ mrErr = ""
    /\ written = resp.Body
    /\ written # upstream.Body

\* C28 as stated: the scheme of every request sent upstream is http or
\* https.
C28_Original ==
    sent # <<>> => sent[1].URL.Scheme \in {sHttp, sHttps}

\* the lookups of the request at the gate: hostname and answer
ClaimDNS ==
    [j \in 1..Len(lookups) |->
        [host |-> lookups[j].host, err |-> lookups[j].err,
         addrs |-> lookups[j].addrs]]

MaxCalls == 2

LookupHosts == {"dyn1.example", "dyn2.example"}

NoAnswer == [err |-> FALSE, addrs |-> <<>>]

InitLookup ==
    /\ calls \in [1..MaxCalls ->
                    [pc : {"get"}, host : LookupHosts, answer : {NoAnswer},
                     ret : {NoAnswer}]]
    /\ setLog = <<>>
    /\ cache = <<>>
    /\ now = 0
    /\ policy = [allowedIPs |-> <<>>, allowedIPRanges |-> <<>>,
                 allowedHosts |-> <<"dyn1.example", "dyn2.example">>]
    /\ addrParts = [text |-> <<>>, port |-> NoPort, pad |-> <<>>]
    /\ remoteAddr = <<>>
    /\ aclPc = "idle"
    /\ hostIdx = 1
    /\ status = 0
    /\ nextCalled = FALSE
    /\ lookups = <<>>
    /\ resolved = <<>>
    /\ prevGate = NoGate
    /\ domain = sDomainDot
    /\ DlIdle
    /\ parts = [label |-> <<>>, hostPort |-> <<>>, urlPort |-> <<>>]
    /\ pr = NewProxyRequest([Host |-> <<>>,
                             URL |-> [Scheme |-> <<>>, Host |-> <<>>],
                             Header |-> [XForwardedFor |-> <<>>,
                                         XForwardedProto |-> <<>>],
                             TLS |-> FALSE])
    /\ rwDone = FALSE
    /\ MrIdle
    /\ HIdle

\* val, found := d.cache.Get(domain), and the return when it is found
LookupGet(i) ==
    /\ calls[i].pc = "get"
    /\ calls' =
          IF CacheFound(cache, now, calls[i].host)
          THEN [calls EXCEPT ![i].pc = "done",
                             ![i].ret = [err |-> FALSE,
                                         addrs |-> cache[calls[i].host].addrs]]
          ELSE [calls EXCEPT ![i].pc = "resolve"]
    /\ UNCHANGED <<setLog, domain, rwVars, mrVars, aclVars, hVars, dlVars>>

\* addr, err := d.resolver.LookupHost(ctx2, domain), and the return on err
LookupResolve(i) ==
    /\ calls[i].pc = "resolve"
    /\ \E answer \in Answers :
          calls' =
             IF answer.err
             THEN [calls EXCEPT ![i].pc = "done", ![i].answer = answer,
                                ![i].ret = [err |-> TRUE, addrs |-> <<>>]]
             ELSE [calls EXCEPT ![i].pc = "set", ![i].answer = answer]
    /\ UNCHANGED <<setLog, domain, rwVars, mrVars, aclVars, hVars, dlVars>>

\* d.cache.Set(domain, addr, cache.DefaultExpiration), and the return
LookupSet(i) ==
    /\ calls[i].pc = "set"
    /\ cache' = CacheSet(cache, now, calls[i].host, calls[i].answer.addrs)
    /\ setLog' = Append(setLog, [host |-> calls[i].host,
                                 addrs |-> calls[i].answer.addrs])
    /\ calls' = [calls EXCEPT ![i].pc = "done",
                              ![i].ret = [err |-> FALSE,
                                          addrs |-> calls[i].answer.addrs]]
    /\ UNCHANGED <<policy, addrParts, remoteAddr, aclPc, hostIdx, status,
                   nextCalled, lookups, now, resolved, prevGate, domain, rwVars,
                   mrVars, hVars, dlVars>>

NextLookup ==
    \E i \in 1..MaxCalls : LookupGet(i) \/ LookupResolve(i) \/ LookupSet(i)

SpecLookup == InitLookup /\ [][NextLookup]_vars

\* the lists the resolver has answered for the hostname
ClaimResolutions(h) ==
    {calls[i].answer.addrs :
        i \in {k \in 1..MaxCalls : /\ calls[k].host = h
                                   /\ calls[k].pc \in {"set", "done"}
                                   /\ calls[k].answer # NoAnswer
                                   /\ ~calls[k].answer.err}}

\* the last list set for the hostname
ClaimLastSet(h) ==
    LET at == {j \in 1..Len(setLog) : setLog[j].host = h}
    IN  setLog[CHOOSE j \in at : \A k \in at : k <= j].addrs

\* C26: however the IPLookup calls on the one cache interleave, a call
\* returns the whole list of one answer of the resolver for its hostname
\* (its own, or the cached one of another call) or the error of its own
\* resolution, and the cache entry of a hostname is the whole list of one
\* answer, the one of the last Set, never part of a list or lists mixed.
C26_AtomicCache ==
    /\ \A i \in 1..MaxCalls :
          calls[i].pc = "done" =>
             IF calls[i].ret.err
             THEN calls[i].answer.err /\ calls[i].ret.addrs = <<>>
             ELSE calls[i].ret.addrs \in ClaimResolutions(calls[i].host)
    /\ \A h \in DOMAIN cache :
          /\ cache[h].addrs \in ClaimResolutions(h)
          /\ cache[h].addrs = ClaimLastSet(h)

C26_Witness ==
    /\ \A i \in 1..MaxCalls : calls[i].pc = "done"
    /\ calls[1].host = calls[2].host
    /\ calls[1].ret = [err |-> FALSE, addrs |-> <<ip1234>>]
    /\ calls[2].ret = [err |-> FALSE, addrs |-> <<ip5678, ip11000>>]
    /\ setLog[1].addrs = <<ip5678, ip11000>>
    /\ cache[calls[1].host].addrs = <<ip1234>>


(***************************************************************************)
(* Deadlines.  IPLookup resolves under context.WithTimeout(ctx, d.timeout) *)
(* with ctx the context of the request (dns.go), and the handler hands the *)
(* request to ReverseProxy under context.WithTimeout(r.Context(),          *)
(* h.timeout) (index.go).  A context is done when its deadline has passed  *)
(* or its parent is done; the context of a request is done when the client *)
(* has disconnected.  The clock ticks while nothing is due.                *)
(***************************************************************************)
MaxTimeout == 3     \* the timeouts tried, in ticks
MaxLookups == 2     \* the allowedHosts entries a request may have to resolve
ClockSlack == 2     \* the clock runs this far past the timeout

\* context.WithTimeout(r.Context(), h.timeout) of the handler
ForwardContextNoDeadline(t) ==
    [fromRequest |-> TRUE, deadline |-> t + ClockSlack + 1]

ForwardContext(t) == [fromRequest |-> TRUE, deadline |-> t]

\* context.WithTimeout(ctx, d.timeout) of IPLookup
LookupContext(t) == [fromRequest |-> TRUE, deadline |-> t]

\* ctx.Done() is closed
ContextDone(ctx, elapsed, clientGone) ==
    elapsed >= ctx.deadline \/ (ctx.fromRequest /\ clientGone)

InFlight == dPc \in {"lookup", "forward", "copying"}

InitDeadline ==
    /\ timeout \in 1..MaxTimeout
    /\ dPc = "idle"
    /\ dCtx = NoContext
    /\ timer = 0
    /\ gone = FALSE
    /\ hostsLeft = 0
    /\ dStatus = 0
    /\ domain = sDomainDot
    /\ LkIdle
    /\ parts = [label |-> <<>>, hostPort |-> <<>>, urlPort |-> <<>>]
    /\ pr = NewProxyRequest([Host |-> <<>>,
                             URL |-> [Scheme |-> <<>>, Host |-> <<>>],
                             Header |-> [XForwardedFor |-> <<>>,
                                         XForwardedProto |-> <<>>],
                             TLS |-> FALSE])
    /\ rwDone = FALSE
    /\ MrIdle
    /\ AclIdle
    /\ HIdle

\* the handler starts: the forward under its context
StartForward ==
    /\ dPc' = "forward"
    /\ dCtx' = ForwardContext(timeout)
    /\ timer' = 0

\* a request comes in: the gate looks up the hosts it has to, then the
\* handler forwards
Admit ==
    /\ dPc = "idle"
    /\ gone' = FALSE
    /\ dStatus' = 0
    /\ \E n \in 0..MaxLookups :
          /\ hostsLeft' = n
          /\ IF n = 0
             THEN StartForward
             ELSE /\ dPc' = "lookup"
                  /\ dCtx' = LookupContext(timeout)
                  /\ timer' = 0
    /\ UNCHANGED <<timeout, domain, rwVars, mrVars, aclVars, hVars, lkVars>>

\* the resolver answers in time: a match, no match or an error
LookupAnswers ==
    /\ dPc = "lookup"
    /\ ~ContextDone(dCtx, timer, gone)
    /\ \E outcome \in {"match", "no match", "error"} :
          CASE outcome = "match" ->
                 /\ StartForward
                 /\ hostsLeft' = 0
                 /\ dStatus' = 0
            [] outcome = "error" ->
                 /\ dPc' = "ended"
                 /\ dStatus' = StatusInternalServerError
                 /\ UNCHANGED <<dCtx, timer, hostsLeft>>
            [] outcome = "no match" ->
                 /\ hostsLeft' = hostsLeft - 1
                 /\ IF hostsLeft = 1
                    THEN /\ dPc' = "ended"
                         /\ dStatus' = StatusForbidden
                         /\ UNCHANGED <<dCtx, timer>>
                    ELSE /\ dPc' = "lookup"
                         /\ dCtx' = LookupContext(timeout)
                         /\ timer' = 0
                         /\ dStatus' = 0
    /\ UNCHANGED <<timeout, gone, domain, rwVars, mrVars, aclVars, hVars, lkVars>>

\* the context of the lookup is done: LookupHost returns its error
LookupCancelled ==
    /\ dPc = "lookup"
    /\ ContextDone(dCtx, timer, gone)
    /\ dPc' = "ended"
    /\ dStatus' = StatusInternalServerError
    /\ UNCHANGED <<timeout, dCtx, timer, gone, hostsLeft, domain, rwVars,
                   mrVars, aclVars, hVars, lkVars>>

\* the onion service answers in time: the header goes out
UpstreamAnswers ==
    /\ dPc = "forward"
    /\ ~ContextDone(dCtx, timer, gone)
    /\ dPc' = "copying"
    /\ dStatus' = StatusOK
    /\ UNCHANGED <<timeout, dCtx, timer, gone, hostsLeft, domain, rwVars,
                   mrVars, aclVars, hVars, lkVars>>

\* the context of the forward is done: the round trip returns its error
\* and the ErrorHandler answers
ForwardCancelled ==
    /\ dPc = "forward"
    /\ ContextDone(dCtx, timer, gone)
    /\ dPc' = "ended"
    /\ dStatus' = StatusBadGateway
    /\ UNCHANGED <<timeout, dCtx, timer, gone, hostsLeft, domain, rwVars,
                   mrVars, aclVars, hVars, lkVars>>

\* the body has been copied
CopyEnds ==
    /\ dPc = "copying"
    /\ ~ContextDone(dCtx, timer, gone)
    /\ dPc' = "ended"
    /\ UNCHANGED <<timeout, dCtx, timer, gone, hostsLeft, dStatus, domain,
                   rwVars, mrVars, aclVars, hVars, lkVars>>

\* the context is done while the body is copied: the read of the upstream
\* body fails and the reply is aborted
CopyCancelled ==
    /\ dPc = "copying"
    /\ ContextDone(dCtx, timer, gone)
    /\ dPc' = "ended"
    /\ dStatus' = 0
    /\ UNCHANGED <<timeout, dCtx, timer, gone, hostsLeft, domain, rwVars,
                   mrVars, aclVars, hVars, lkVars>>

\* the client disconnects
ClientDisconnects ==
    /\ InFlight
    /\ ~gone
    /\ gone' = TRUE
    /\ UNCHANGED <<timeout, dPc, dCtx, timer, hostsLeft, dStatus, domain,
                   rwVars, mrVars, aclVars, hVars, lkVars>>

\* a tick of the clock, while no context in use is done
ClockTicks ==
    /\ InFlight
    /\ ~ContextDone(dCtx, timer, gone)
    /\ timer < timeout + ClockSlack
    /\ timer' = timer + 1
    /\ UNCHANGED <<timeout, dPc, dCtx, gone, hostsLeft, dStatus, domain,
                   rwVars, mrVars, aclVars, hVars, lkVars>>

\* the server waits for the next request
NextRequest ==
    /\ dPc = "ended"
    /\ dPc' = "idle"
    /\ dCtx' = NoContext
    /\ timer' = 0
    /\ gone' = FALSE
    /\ hostsLeft' = 0
    /\ dStatus' = 0
    /\ UNCHANGED <<timeout, domain, rwVars, mrVars, aclVars, hVars, lkVars>>

NextDeadline ==
    Admit \/ LookupAnswers \/ LookupCancelled \/ UpstreamAnswers
    \/ ForwardCancelled \/ CopyEnds \/ CopyCancelled \/ ClientDisconnects
    \/ ClockTicks \/ NextRequest

\* the clock goes on, a done context is noticed, and a copy that can go on
\* does; nothing makes the resolver or the onion service answer
SpecDeadline ==
    /\ InitDeadline
    /\ [][NextDeadline]_vars
    /\ WF_vars(ClockTicks)
    /\ WF_vars(LookupCancelled)
    /\ WF_vars(ForwardCancelled)
    /\ WF_vars(CopyCancelled)
    /\ WF_vars(CopyEnds)

\* C25: a lookup and a forward never run past the configured timeout, nor
\* on after the client has gone once that is noticed, so every request
\* that was admitted ends, with a reply or an error, and a forward whose
\* client has gone ends.
C25_Deadlines ==
    /\ [](InFlight => timer <= timeout)
    /\ [](InFlight => (dCtx.fromRequest /\ dCtx.deadline = timeout))
    /\ InFlight ~> dPc = "ended"
    /\ (dPc = "forward" /\ gone) ~> dPc = "ended"

C25_Witness ==
    /\ dPc = "ended"
    /\ hostsLeft = 0
    /\ dCtx = [fromRequest |-> TRUE, deadline |-> MaxTimeout]
    /\ timer = MaxTimeout
    /\ ~gone
    /\ dStatus = StatusBadGateway


=============================================================================
